---- MODULE Spec2Model ----
(***************************************************************************)
(* The authenticated-request core of pyhaopenmotics: BaseClient._request   *)
(* with its retry decorator and error classification, get/post, the local  *)
(* gateway's login and token expiry, and the ownership of the transport    *)
(* session.  Each action is one atomic segment of a coroutine, from one    *)
(* suspension point (an awaited I/O operation) to the next.                *)
(***************************************************************************)
EXTENDS Integers, Sequences, FiniteSets, TLC

\* ------------------------------------------------------------------------
\* Bounds of the model
\* ------------------------------------------------------------------------
\* total number of operations started on the client
MaxOps == 3
\* number of times the wall clock is advanced
MaxTicks == 1
\* how far below 0 and above 100 the values passed to turn_on reach
MaxOver == 3
\* length of the longest status list of an energy sensor
MaxLen == 5
\* wall-clock time at construction of the client
StartTime == 100

\* ------------------------------------------------------------------------
\* Program constants
\* ------------------------------------------------------------------------
LOCAL_TOKEN_EXPIRES_IN == 3600
CLOCK_OUT_OF_SYNC_MAX_SEC == 20
\* attempts=3 of the stamina.retry decorator
RETRY_ATTEMPTS == 3
\* the default of request_timeout, in seconds
REQUEST_TIMEOUT == 8

\* the coroutines that use the one client: the caller, and a second one that
\* runs concurrently with it
Caller == "caller"
Tasks == {Caller, "other"}
None == "None"
Absent == "Absent"
\* the caller-supplied session; sessions the client creates are 1, 2, ...
Ext == "ext"
Created == {ToString(i) : i \in 1..MaxOps}
SessionIds == {Ext} \cup Created

\* tokens a login response or a refresh callback can deliver
Tokens == {"tokA", "tokB"}

\* steps by which the wall clock advances between two atomic segments: up
\* to the last second on which a token of the second before is still good,
\* and one second beyond
TickSteps == {LOCAL_TOKEN_EXPIRES_IN - CLOCK_OUT_OF_SYNC_MAX_SEC,
              LOCAL_TOKEN_EXPIRES_IN - CLOCK_OUT_OF_SYNC_MAX_SEC + 1}

\* ------------------------------------------------------------------------
\* Transport outcomes
\* ------------------------------------------------------------------------
\* exceptions session.request() can raise, by the name of their class
RequestExceptions ==
    {"TimeoutError", "ServerTimeoutError", "ClientConnectorSSLError",
     "ClientConnectorCertificateError", "gaierror", "ClientConnectorError",
     "RuntimeError"}

\* exceptions the read of the body (response.json(), response.text()) raises
BodyExceptions == {"ClientPayloadError", "JSONDecodeError", "TimeoutError"}

Statuses == {200, 400, 401, 403, 500}

\* reason phrase the server sends with a status
ReasonOf(status) ==
    CASE status = 200 -> "OK"
      [] status = 400 -> "Bad Request"
      [] status = 401 -> "Unauthorized"
      [] status = 403 -> "Forbidden"
      [] OTHER        -> "Server Error"

\* JSON documents the gateway answers with
Bodies ==
    {[success |-> "true", token |-> "tokA"],
     [success |-> "true", token |-> "tokB"],
     [success |-> "true", token |-> Absent],
     [success |-> "false", token |-> Absent],
     [success |-> Absent, token |-> Absent]}

\* response.headers.get("Content-Type", "") of a response without the header
NoHeader == <<>>

\* values of the Content-Type header, each as the sequence of the pieces it
\* is written with
ContentTypes ==
    {<<"application/json">>, <<"application/json", "; charset=utf-8">>,
     <<"Application/JSON">>, <<"text/plain">>, NoHeader}

\* line 194 as content_type == "application/json"
IsJsonExact(content_type) == content_type = <<"application/json">>

\* line 194: "application/json" in content_type
IsJson(content_type) ==
    \E i \in 1..Len(content_type) : content_type[i] = "application/json"

NoBody == [success |-> Absent, token |-> Absent]

\* the document most bodies hold
TokenBody == [success |-> "true", token |-> "tokA"]

\* the answers of the server: with status 200 a body, which is the text of
\* a JSON document whatever the Content-Type says
Responses ==
    [type : {"response"}, status : {200}, ctype : {<<"application/json">>},
     body : Bodies, class : {None}]
    \cup
    [type : {"response"}, status : {200},
     ctype : ContentTypes \ {<<"application/json">>, NoHeader},
     body : {TokenBody}, class : {None}]
    \cup
    [type : {"response"}, status : {200}, ctype : {<<"text/plain">>, NoHeader},
     body : {NoBody}, class : {None}]
    \cup
    {[type |-> "response", status |-> s, ctype |-> NoHeader, body |-> NoBody,
      class |-> None] : s \in Statuses \ {200}}

\* an exception object: its class and, for a ClientResponseError, the status
\* and message of the response it was built from
RaisedBy(name) == [class |-> name, status |-> 0, message |-> ""]

\* what session.request() delivers: a response or an exception
RequestOutcomes ==
    Responses \cup
    {[type |-> "exception", status |-> 0, ctype |-> NoHeader, body |-> NoBody,
      class |-> e] : e \in RequestExceptions}

\* paths a caller passes; "invalid" is a string yarl's URL() rejects
Paths == {"path", "invalid"}
\* the path of the login request
LoginPath == "login"

\* ------------------------------------------------------------------------
\* Exception classes
\* ------------------------------------------------------------------------
\* the classes an exception raised inside the try block is an instance of
Ancestors(class) ==
    CASE class = "TimeoutError" -> {"TimeoutError", "OSError", "Exception"}
      [] class = "ServerTimeoutError" ->
            {"ServerTimeoutError", "ServerConnectionError", "ClientConnectionError",
             "ClientError", "TimeoutError", "OSError", "Exception"}
      [] class = "ClientConnectorSSLError" ->
            {"ClientConnectorSSLError", "ClientSSLError", "ClientConnectorError",
             "ClientOSError", "ClientConnectionError", "ClientError", "OSError",
             "Exception"}
      [] class = "ClientConnectorCertificateError" ->
            {"ClientConnectorCertificateError", "ClientSSLError",
             "ClientConnectorError", "ClientOSError", "ClientConnectionError",
             "ClientError", "OSError", "Exception"}
      [] class = "ClientConnectorError" ->
            {"ClientConnectorError", "ClientOSError", "ClientConnectionError",
             "ClientError", "OSError", "Exception"}
      [] class = "ClientResponseError" ->
            {"ClientResponseError", "ClientError", "Exception"}
      [] class = "ClientPayloadError" ->
            {"ClientPayloadError", "ClientError", "Exception"}
      [] class = "gaierror" -> {"gaierror", "OSError", "Exception"}
      [] class = "JSONDecodeError" -> {"JSONDecodeError", "ValueError", "Exception"}
      [] OTHER -> {class, "Exception"}

\* the error kinds of client/errors.py: flat below the common base
ErrorBases(class) ==
    IF class \in {"OpenMoticsConnectionError", "OpenMoticsConnectionTimeoutError",
                  "OpenMoticsConnectionSslError", "AuthenticationError"}
    THEN {class, "OpenMoticsError", "Exception"}
    ELSE Ancestors(class)

TypedErrors ==
    {"OpenMoticsConnectionError", "OpenMoticsConnectionTimeoutError",
     "OpenMoticsConnectionSslError", "AuthenticationError"}

\* response.raise_for_status(): the exception a response with status >= 400
\* raises, carrying the status and the reason phrase
RaiseForStatus(resp) ==
    [class |-> "ClientResponseError", status |-> resp.status,
     message |-> ReasonOf(resp.status)]

\* the except clauses without the test of the status
ClassifyNoAuth(exc) ==
    LET anc == Ancestors(exc.class) IN
    IF "TimeoutError" \in anc
    THEN RaisedBy("OpenMoticsConnectionTimeoutError")
    ELSE IF "ClientConnectorSSLError" \in anc
    THEN RaisedBy("OpenMoticsConnectionSslError")
    ELSE IF "ClientResponseError" \in anc
    THEN [class |-> "OpenMoticsConnectionError", status |-> exc.status,
          message |-> exc.message]
    ELSE RaisedBy("OpenMoticsConnectionError")

\* the except clauses of _request, in their order
Classify(exc) ==
    LET anc == Ancestors(exc.class) IN
    IF "TimeoutError" \in anc
    THEN RaisedBy("OpenMoticsConnectionTimeoutError")
    ELSE IF "ClientConnectorSSLError" \in anc
    THEN RaisedBy("OpenMoticsConnectionSslError")
    ELSE IF "ClientResponseError" \in anc
    THEN IF exc.status \in {401, 403}
         THEN RaisedBy("AuthenticationError")
         ELSE [class |-> "OpenMoticsConnectionError", status |-> exc.status,
               message |-> exc.message]
    ELSE IF "gaierror" \in anc \/ "ClientError" \in anc
    THEN RaisedBy("OpenMoticsConnectionError")
    ELSE RaisedBy("OpenMoticsConnectionError")

\* the decorator written with on=OpenMoticsError
RetryableAnyError(exc) == "OpenMoticsError" \in ErrorBases(exc.class)

\* on=OpenMoticsConnectionError of the retry decorator
Retryable(exc) == "OpenMoticsConnectionError" \in ErrorBases(exc.class)

\* the test of line 166 without the expiry
StaleTokenOnly(tok, exp, t) == tok = None

\* the test of line 166 with <= for <
StaleInclusive(tok, exp, t) == tok = None \/ exp <= t + CLOCK_OUT_OF_SYNC_MAX_SEC

\* line 166 of localgateway.py
Stale(tok, exp, t) == tok = None \/ exp < t + CLOCK_OUT_OF_SYNC_MAX_SEC

\* the Authorization header BaseClient._get_auth_headers composes
AuthHeader(tok) == IF tok \notin {None, ""} THEN tok ELSE Absent

\* ------------------------------------------------------------------------
\* Request headers
\* ------------------------------------------------------------------------
\* a headers mapping gives each of these names a value or Absent
HeaderNames == {"test", "Accept", "User-Agent", "Authorization"}

\* the empty mapping: headers=None and headers={} both read as it
NoHeaders == [h \in HeaderNames |-> Absent]

\* the headers argument a caller passes to get / post
SuppliedHeaders ==
    {NoHeaders,
     [NoHeaders EXCEPT !["test"] = "header"],
     [NoHeaders EXCEPT !["Accept"] = "text/csv"],
     [NoHeaders EXCEPT !["test"] = "header", !["Authorization"] = "Basic xyz"]}

\* self.user_agent, without the version number
UserAgent == "PyHAOpenMotics"

\* BaseClient._get_auth_headers without the test of self.token
BaseAuthHeadersAlways(headers, tok) ==
    [h \in HeaderNames |->
        IF h = "User-Agent" THEN UserAgent
        ELSE IF h = "Authorization" THEN "Bearer " \o tok
        ELSE headers[h]]

\* BaseClient._get_auth_headers with the test "self.token is not None"
BaseAuthHeadersNotNone(headers, tok) ==
    [h \in HeaderNames |->
        IF h = "User-Agent" THEN UserAgent
        ELSE IF h = "Authorization" /\ tok # None THEN "Bearer " \o tok
        ELSE headers[h]]

\* BaseClient._get_auth_headers: the caller's headers, User-Agent, and
\* Authorization if self.token is truthy
BaseAuthHeaders(headers, tok) ==
    [h \in HeaderNames |->
        IF h = "User-Agent" THEN UserAgent
        ELSE IF h = "Authorization" /\ tok \notin {None, ""} THEN "Bearer " \o tok
        ELSE headers[h]]

\* line 299, headers = headers or {}: the object the hook writes to is the
\* caller's own unless that is None or empty; so this is what the caller's
\* object holds once the hook has composed the headers
CallerMapping(supplied, composed) ==
    IF supplied = NoHeaders THEN supplied ELSE composed

\* LocalGateway._get_auth_headers, lines 169-172
LocalAuthHeaders(headers, tok) ==
    [BaseAuthHeaders(headers, tok) EXCEPT
        !["Accept"] = "application/json, text/plain, */*"]

\* OpenMoticsCloud._get_auth_headers
CloudAuthHeaders(headers, tok) ==
    [BaseAuthHeaders(headers, tok) EXCEPT !["Accept"] = "application/json"]

\* ------------------------------------------------------------------------
\* URLs of the local gateway
\* ------------------------------------------------------------------------
Schemes == {"https", "http", "wss"}
Hosts == {"testlocalgw", "gateway2"}
Ports == {443, 80, 8443}

\* a URL without an explicit port
NoPort == 0

\* the port yarl leaves out of the text of a URL
DefaultPort(scheme) ==
    CASE scheme \in {"https", "wss"} -> 443
      [] scheme \in {"http", "ws"}   -> 80

\* the strings passed as the path argument of _get_url
PathArgs == {"/test", "login", "/api/status", "http://other/x", "//other:8080/x"}

\* those of them that are paths: they name no scheme and no host
PathRefs == {"/test", "login", "/api/status"}

\* no URL was resolved
NoUrl == [scheme |-> Absent, host |-> Absent, port |-> NoPort, path |-> "",
          rooted |-> FALSE]

\* URL(path): the parts yarl reads from the string; rooted says whether the
\* path starts with a slash
UrlParse(path) ==
    CASE path = "/test" ->
            [scheme |-> Absent, host |-> Absent, port |-> NoPort,
             path |-> "/test", rooted |-> TRUE]
      [] path = "login" ->
            [scheme |-> Absent, host |-> Absent, port |-> NoPort,
             path |-> "login", rooted |-> FALSE]
      [] path = "path" ->
            [scheme |-> Absent, host |-> Absent, port |-> NoPort,
             path |-> "path", rooted |-> FALSE]
      [] path = "/api/status" ->
            [scheme |-> Absent, host |-> Absent, port |-> NoPort,
             path |-> "/api/status", rooted |-> TRUE]
      [] path = "http://other/x" ->
            [scheme |-> "http", host |-> "other", port |-> NoPort,
             path |-> "/x", rooted |-> TRUE]
      [] path = "//other:8080/x" ->
            [scheme |-> Absent, host |-> "other", port |-> 8080,
             path |-> "/x", rooted |-> TRUE]

\* URL.build(scheme=scheme, host=host, port=port, path="/")
UrlBuild(scheme, host, port) ==
    [scheme |-> scheme, host |-> host, port |-> port, path |-> "/",
     rooted |-> TRUE]

\* base.join(ref): the reference is resolved against the base as RFC 3986
\* says; the path of the base is "/", so a path that is not rooted is put
\* right behind that slash
UrlJoin(base, ref) ==
    IF ref.scheme # Absent THEN ref
    ELSE IF ref.host # Absent THEN [ref EXCEPT !.scheme = base.scheme]
    ELSE [base EXCEPT !.path = IF ref.rooted THEN ref.path
                               ELSE base.path \o ref.path]

\* str(url) when the port is always written
UrlStrAlwaysPort(url) ==
    url.scheme \o "://" \o url.host
    \o (IF url.port # NoPort THEN ":" \o ToString(url.port) ELSE "")
    \o url.path

\* str(url): the port is written unless it is the default of the scheme
UrlStr(url) ==
    url.scheme \o "://" \o url.host
    \o (IF url.port \notin {NoPort, DefaultPort(url.scheme)}
        THEN ":" \o ToString(url.port) ELSE "")
    \o url.path

\* LocalGateway._get_url(path, scheme)
LocalGetUrl(a, path, scheme) ==
    UrlStr(UrlJoin(UrlBuild(scheme, a.localgw, a.port), UrlParse(path)))

\* values passed as username and as password
Usernames == {None, "", "testuser"}
Passwords == {None, "", "testpass"}

\* self.auth when it is None
AuthNone == [isNone |-> TRUE, username |-> Absent, password |-> Absent]

\* lines 89-92 with "or" for "and"
MakeAuthEither(username, password) ==
    IF username \notin {None, ""} \/ password \notin {None, ""}
    THEN [isNone |-> FALSE, username |-> username, password |-> password]
    ELSE AuthNone

\* lines 89-92 of LocalGateway.__init__: self.auth
MakeAuth(username, password) ==
    IF username \notin {None, ""} /\ password \notin {None, ""}
    THEN [isNone |-> FALSE, username |-> username, password |-> password]
    ELSE AuthNone

\* LocalGateway(username, password, localgw, port=port): the attributes set
LocalGatewayInit(username, password, localgw, port) ==
    [localgw |-> localgw, port |-> port, username |-> username,
     password |-> password, auth |-> MakeAuth(username, password)]

\* the gateways of the URL checks and of the login checks
LocalAttrs ==
    {LocalGatewayInit("testuser", "testpass", h, p) : h \in Hosts, p \in Ports}
AuthAttrs ==
    {LocalGatewayInit(u, p, "testlocalgw", 443) :
        u \in Usernames, p \in Passwords}

\* LocalGateway("testuser", "testpass", "testlocalgw") of the tests
TestAttrs == LocalGatewayInit("testuser", "testpass", "testlocalgw", 443)

\* no helper was called yet
NoProbe == [fn |-> "none", path |-> None, scheme |-> None, out |-> None]

\* ------------------------------------------------------------------------
\* The cloud client's installation and its accessors
\* ------------------------------------------------------------------------
\* an optional integer is the empty sequence (None) or holds the integer
NoId == <<>>
InstallationIds == {<<1>>, <<123>>, <<999>>}
UnitIds == {1, 7}

\* what an f-string makes of an optional integer
Format(id) == IF id = NoId THEN "None" ELSE ToString(id[1])

\* a cloud client constructed without installation_id, and no accessor yet;
\* an accessor holds the client (omcloud); seen, the installation_id of the
\* moment the accessor was created, is kept for the properties only
NoCloud ==
    [installation_id |-> NoId, assigned |-> FALSE,
     ventilations |-> [exists |-> FALSE, omcloud |-> None, seen |-> NoId]]

\* the paths of get_all and get_by_id when the accessor keeps the
\* installation_id of its creation
VentilationPathsCaptured(acc, omcloud) ==
    LET base == "/base/installations/" \o Format(acc.seen)
                \o "/ventilations/units"
    IN  {base} \cup {base \o "/" \o ToString(u) : u \in UnitIds}

\* lines 47 and 68 of ventilations.py: the paths of get_all() and of
\* get_by_id(ventilationunit_id)
VentilationPaths(acc, omcloud) ==
    LET base == "/base/installations/" \o Format(omcloud.installation_id)
                \o "/ventilations/units"
    IN  {base} \cup {base \o "/" \o ToString(u) : u \in UnitIds}

\* no json= argument
NoJson == [given |-> FALSE, payload |-> <<>>]

\* the values passed to turn_on: None (omitted) or an integer
TurnOnValues == {NoId} \cup {<<v>> : v \in (0 - MaxOver)..(100 + MaxOver)}

\* turn_on with the test "if value:"
TurnOnPayloadTruthy(value) ==
    IF value # NoId /\ value[1] # 0
    THEN LET low == IF value[1] < 100 THEN value[1] ELSE 100
         IN  [given |-> TRUE, payload |-> <<IF 0 > low THEN 0 ELSE low>>]
    ELSE [given |-> TRUE, payload |-> <<>>]

\* lines 122-128 of outputs.py: the payload of turn_on, {} or {"value": v}
TurnOnPayload(value) ==
    IF value # NoId
    THEN LET low == IF value[1] < 100 THEN value[1] ELSE 100
         IN  [given |-> TRUE, payload |-> <<IF 0 > low THEN 0 ELSE low>>]
    ELSE [given |-> TRUE, payload |-> <<>>]

\* line 130 of outputs.py: the path of turn_on
TurnOnPath(omcloud, output_id) ==
    "/base/installations/" \o Format(omcloud.installation_id)
    \o "/outputs/" \o ToString(output_id) \o "/turn_on"

\* ------------------------------------------------------------------------
\* State
\* ------------------------------------------------------------------------
VARIABLES
    backend,                \* "local" (LocalGateway) or "cloud" (OpenMoticsCloud)
    token_refresh_method,   \* TRUE iff a refresh callback was configured
    token,                  \* self.token
    token_expires_at,       \* self.token_expires_at
    session,                \* self.session: None or a session id
    close_session,          \* self._close_session
    sessions,               \* transport: "unused", "open" or "closed" per session
    closes,                 \* transport: number of close() calls per session
    now,                    \* time.time()
    ticks,                  \* number of clock advances so far
    started,                \* number of operations started so far
    pc,                     \* where each coroutine is suspended
    call,                   \* the locals of each coroutine
    result,                 \* what the finished operation gave its caller
    lastLogin,              \* the login response get_token processed last
    scope,                  \* the application's async-with block on the client
    attrs,                  \* the attributes of the backend: host, port, ...
    probe,                  \* the last call of a helper and what it returned
    cloud                   \* the cloud client's installation_id, and its accessor

vars == <<backend, token_refresh_method, token, token_expires_at, session,
          close_session, sessions, closes, now, ticks, started, pc, call,
          result, lastLogin, scope, attrs, probe, cloud>>

config == <<backend, token_refresh_method, attrs>>
transport == <<session, close_session, sessions, closes>>
clock == <<now, ticks>>

NoRaw == [type |-> "none", status |-> 0, ctype |-> NoHeader, body |-> NoBody,
          class |-> None]

NoValue == [form |-> "none", body |-> NoBody]

NoResult == [outcome |-> "none", class |-> None, status |-> 0, message |-> "",
             value |-> NoValue]

Returned(val) == [outcome |-> "returned", class |-> None, status |-> 0,
                  message |-> "", value |-> val]

Raised(exc) == [outcome |-> "raised", class |-> exc.class, status |-> exc.status,
                message |-> exc.message, value |-> NoValue]

\* the locals of a coroutine: the operation it runs (op), whether it is in
\* the login or in the target request (phase), the arguments of the current
\* _request (method, path, data, auth: the Authorization header), the number
\* of the attempt, the session used, the last transport outcome (raw) and the
\* class of the exception that ended the last attempt (err); and what it did
\* so far: get_token calls (nLogin, loginDone, wrote: the token its login
\* stored), HTTP calls (nHttp: of the current _request) and invocations of
\* the refresh callback (nRefresh: of the current _request; refreshed: what
\* the last one returned); deadline is the time at which asyncio.timeout
\* cancels the session.request() of the current attempt; supplied is the
\* headers argument of get / post, headers what _get_auth_headers made of
\* it, and sent the headers of the last HTTP call; body is the value of
\* self.auth that a login request was given as its data, url the URL of
\* the last HTTP call, and mapping what the caller's own headers object
\* holds by now; via is the accessor method that made the call, arg the
\* value it was given and json the json= argument it passed on
NoCall ==
    [op |-> "none", phase |-> "none", attempt |-> 0, method |-> "none",
     path |-> "path", data |-> "none", target |-> "path", auth |-> Absent,
     sess |-> None, raw |-> NoRaw, err |-> None,
     nHttp |-> 0, nLogin |-> 0, nLoginHttp |-> 0, nTargetHttp |-> 0,
     loginDone |-> FALSE, wrote |-> Absent,
     nRefresh |-> 0, refreshed |-> Absent, deadline |-> 0,
     supplied |-> NoHeaders, headers |-> NoHeaders, sent |-> NoHeaders,
     body |-> AuthNone, url |-> NoUrl, mapping |-> NoHeaders,
     via |-> "none", arg |-> NoId, json |-> NoJson]

NoLogin == [seen |-> FALSE, body |-> NoBody, at |-> 0]

\* the state after construction, for a cloud client with token in tokens
InitWith(tokens) ==
    /\ backend \in {"local", "cloud"}
    /\ token_refresh_method \in (IF backend = "cloud" THEN BOOLEAN ELSE {FALSE})
    /\ token \in (IF backend = "cloud" THEN tokens ELSE {None})
    /\ token_expires_at = 0
    /\ session \in {None, Ext}
    /\ close_session = FALSE
    /\ sessions = [s \in SessionIds |->
                      IF s = Ext /\ session = Ext THEN "open" ELSE "unused"]
    /\ closes = [s \in SessionIds |-> 0]
    /\ now = StartTime
    /\ ticks = 0
    /\ started = 0
    /\ pc = [t \in Tasks |-> "idle"]
    /\ call = [t \in Tasks |-> NoCall]
    /\ result = [t \in Tasks |-> NoResult]
    /\ lastLogin = NoLogin
    /\ scope = "out"

\* a cloud client is constructed with a token or without one; the gateway
\* is the one of the tests
Init ==
    /\ InitWith({"tokA", None})
    /\ attrs = TestAttrs
    /\ probe = NoProbe
    /\ cloud = NoCloud

\* the credential an atomic segment leaves behind
Cred(tok, exp, last) == [token |-> tok, expires |-> exp, last |-> last]
CurrentCred == Cred(token, token_expires_at, lastLogin)

SetCred(cred) ==
    /\ token' = cred.token
    /\ token_expires_at' = cred.expires
    /\ lastLogin' = cred.last

\* the operation of coroutine t ends: it returns or raises res
Finish(t, c, res, cred) ==
    /\ pc' = [pc EXCEPT ![t] = "done"]
    /\ call' = [call EXCEPT ![t] = c]
    /\ result' = [result EXCEPT ![t] = res]
    /\ SetCred(cred)
    /\ UNCHANGED transport

\* the session a freshly created aiohttp.ClientSession() gets
NewSession == ToString(Cardinality({s \in Created : sessions[s] # "unused"}) + 1)

\* line 166 of _request on the local backend: the URL _get_url resolves,
\* with the default scheme
RequestUrl(c) ==
    IF backend = "local"
    THEN UrlJoin(UrlBuild("https", attrs.localgw, attrs.port), UrlParse(c.path))
    ELSE NoUrl

\* lines 166-181 of _request with a session for each request that has none
UrlAndSendOwnSession(t, c, cred) ==
    IF c.path = "invalid"
    THEN Finish(t, c, Raised(RaisedBy("ValueError")), cred)
    ELSE /\ IF c.sess = None
            THEN /\ session' = NewSession
                 /\ close_session' = TRUE
                 /\ sessions' = [sessions EXCEPT ![NewSession] = "open"]
            ELSE UNCHANGED <<session, close_session, sessions>>
         /\ UNCHANGED closes
         /\ pc' = [pc EXCEPT ![t] = "http"]
         /\ call' = [call EXCEPT ![t] =
                [c EXCEPT !.sess = session',
                          !.raw = NoRaw,
                          !.deadline = now + REQUEST_TIMEOUT,
                          !.sent = c.headers,
                          !.url = RequestUrl(c),
                          !.nHttp = @ + 1,
                          !.nLoginHttp = IF c.phase = "login" THEN @ + 1 ELSE @,
                          !.nTargetHttp = IF c.phase = "target" THEN @ + 1 ELSE @]]
         /\ UNCHANGED result
         /\ SetCred(cred)

\* lines 166-181 of _request: resolve the URL, create the session if there
\* is none, and issue the HTTP call
UrlAndSend(t, c, cred) ==
    IF c.path = "invalid"
    THEN Finish(t, c, Raised(RaisedBy("ValueError")), cred)
    ELSE /\ IF session = None
            THEN /\ session' = NewSession
                 /\ close_session' = TRUE
                 /\ sessions' = [sessions EXCEPT ![NewSession] = "open"]
            ELSE UNCHANGED <<session, close_session, sessions>>
         /\ UNCHANGED closes
         /\ pc' = [pc EXCEPT ![t] = "http"]
         /\ call' = [call EXCEPT ![t] =
                [c EXCEPT !.sess = session',
                          !.raw = NoRaw,
                          !.deadline = now + REQUEST_TIMEOUT,
                          !.sent = c.headers,
                          !.url = RequestUrl(c),
                          !.nHttp = @ + 1,
                          !.nLoginHttp = IF c.phase = "login" THEN @ + 1 ELSE @,
                          !.nTargetHttp = IF c.phase = "target" THEN @ + 1 ELSE @]]
         /\ UNCHANGED result
         /\ SetCred(cred)

\* one attempt of _request when the callback is invoked by the first only
AttemptRefreshOnce(t, c, cred) ==
    IF token_refresh_method /\ c.attempt = 1
    THEN /\ pc' = [pc EXCEPT ![t] = "refresh"]
         /\ call' = [call EXCEPT ![t] = [c EXCEPT !.nRefresh = @ + 1]]
         /\ SetCred(cred)
         /\ UNCHANGED <<transport, result>>
    ELSE UrlAndSend(t, c, cred)

\* one attempt of _request, from line 163 to its first suspension
Attempt(t, c, cred) ==
    IF token_refresh_method
    THEN /\ pc' = [pc EXCEPT ![t] = "refresh"]
         /\ call' = [call EXCEPT ![t] = [c EXCEPT !.nRefresh = @ + 1]]
         /\ SetCred(cred)
         /\ UNCHANGED <<transport, result>>
    ELSE UrlAndSend(t, c, cred)

\* self._request(...) is called: the decorator starts the first attempt
Request(t, c, cred) ==
    Attempt(t, [c EXCEPT !.attempt = 1, !.nHttp = 0, !.nRefresh = 0,
                         !.refreshed = Absent], cred)

\* the decorator when it counts the retries and not the attempts
StaminaRetryOffByOne(t, c, exc, giveup) ==
    IF Retryable(exc) /\ c.attempt <= RETRY_ATTEMPTS /\ ~giveup
    THEN /\ pc' = [pc EXCEPT ![t] = "backoff"]
         /\ call' = [call EXCEPT ![t] = [c EXCEPT !.err = exc.class]]
         /\ UNCHANGED <<transport, result, token, token_expires_at, lastLogin>>
    ELSE Finish(t, [c EXCEPT !.err = exc.class], Raised(exc), CurrentCred)

\* the decorator under a get / post that goes on to its target request when
\* the login has failed
StaminaRetryLoginIgnored(t, c, exc, giveup) ==
    IF Retryable(exc) /\ c.attempt < RETRY_ATTEMPTS /\ ~giveup
    THEN /\ pc' = [pc EXCEPT ![t] = "backoff"]
         /\ call' = [call EXCEPT ![t] = [c EXCEPT !.err = exc.class]]
         /\ UNCHANGED <<transport, result, token, token_expires_at, lastLogin>>
    ELSE IF c.phase = "login" /\ c.op \in {"get", "post"}
    THEN UrlAndSend(t, [c EXCEPT !.err = exc.class, !.phase = "target",
                                 !.path = c.target, !.attempt = 1, !.nHttp = 0],
                    CurrentCred)
    ELSE Finish(t, [c EXCEPT !.err = exc.class], Raised(exc), CurrentCred)

\* an exception leaves the body of _request: stamina retries it or lets it go
\* (giveup: the decorator's overall time budget is used up)
StaminaRetry(t, c, exc, giveup) ==
    IF Retryable(exc) /\ c.attempt < RETRY_ATTEMPTS /\ ~giveup
    THEN /\ pc' = [pc EXCEPT ![t] = "backoff"]
         /\ call' = [call EXCEPT ![t] = [c EXCEPT !.err = exc.class]]
         /\ UNCHANGED <<transport, result, token, token_expires_at, lastLogin>>
    ELSE Finish(t, [c EXCEPT !.err = exc.class], Raised(exc), CurrentCred)

\* get_token when the else branch resets the token alone
ProcessLoginKeepsExpiry(val) ==
    IF val.form # "json"
    THEN [raises |-> "TypeError", cred |-> CurrentCred]
    ELSE IF val.body.success = Absent
    THEN [raises |-> "KeyError", cred |-> CurrentCred]
    ELSE IF val.body.success = "true"
    THEN IF val.body.token = Absent
         THEN [raises |-> "KeyError", cred |-> CurrentCred]
         ELSE [raises |-> None,
               cred |-> Cred(val.body.token, now + LOCAL_TOKEN_EXPIRES_IN,
                             [seen |-> TRUE, body |-> val.body, at |-> now])]
    ELSE [raises |-> None,
          cred |-> Cred(None, token_expires_at,
                        [seen |-> TRUE, body |-> val.body, at |-> now])]

\* get_token when only the first of its two writes has happened before the
\* coroutine is suspended
ProcessLoginTokenOnly(val) ==
    IF val.form # "json"
    THEN [raises |-> "TypeError", cred |-> CurrentCred]
    ELSE IF val.body.success = Absent
    THEN [raises |-> "KeyError", cred |-> CurrentCred]
    ELSE IF val.body.success = "true"
    THEN IF val.body.token = Absent
         THEN [raises |-> "KeyError", cred |-> CurrentCred]
         ELSE [raises |-> None,
               cred |-> Cred(val.body.token, token_expires_at,
                             [seen |-> TRUE, body |-> val.body, at |-> now])]
    ELSE [raises |-> None,
          cred |-> Cred(None, token_expires_at,
                        [seen |-> TRUE, body |-> val.body, at |-> now])]

\* get_token when a deadline that is already set is not renewed
ProcessLoginFirstExpiry(val) ==
    IF val.form # "json"
    THEN [raises |-> "TypeError", cred |-> CurrentCred]
    ELSE IF val.body.success = Absent
    THEN [raises |-> "KeyError", cred |-> CurrentCred]
    ELSE IF val.body.success = "true"
    THEN IF val.body.token = Absent
         THEN [raises |-> "KeyError", cred |-> CurrentCred]
         ELSE [raises |-> None,
               cred |-> Cred(val.body.token,
                             IF token_expires_at = 0
                             THEN now + LOCAL_TOKEN_EXPIRES_IN
                             ELSE token_expires_at,
                             [seen |-> TRUE, body |-> val.body, at |-> now])]
    ELSE [raises |-> None,
          cred |-> Cred(None, 0, [seen |-> TRUE, body |-> val.body, at |-> now])]

\* get_token, lines 127-132: the login response is processed
ProcessLogin(val) ==
    IF val.form # "json"
    THEN [raises |-> "TypeError", cred |-> CurrentCred]
    ELSE IF val.body.success = Absent
    THEN [raises |-> "KeyError", cred |-> CurrentCred]
    ELSE IF val.body.success = "true"
    THEN IF val.body.token = Absent
         THEN [raises |-> "KeyError", cred |-> CurrentCred]
         ELSE [raises |-> None,
               cred |-> Cred(val.body.token, now + LOCAL_TOKEN_EXPIRES_IN,
                             [seen |-> TRUE, body |-> val.body, at |-> now])]
    ELSE [raises |-> None,
          cred |-> Cred(None, 0, [seen |-> TRUE, body |-> val.body, at |-> now])]

\* _request returned val when the hook logs in again as long as no token is
\* held
RequestReturnsLoginAgain(t, c, val) ==
    IF c.phase = "login"
    THEN LET p == ProcessLogin(val) IN
         IF p.raises # None
         THEN Finish(t, c, Raised(RaisedBy(p.raises)), p.cred)
         ELSE LET d == [c EXCEPT !.loginDone = TRUE, !.wrote = p.cred.token] IN
              IF c.op = "get_token"
              THEN Finish(t, d, Returned(NoValue), p.cred)
              ELSE IF p.cred.token = None
              THEN Request(t, [d EXCEPT !.nLogin = @ + 1], p.cred)
              ELSE Request(t, [d EXCEPT !.phase = "target",
                                        !.method = IF c.op = "get" THEN "GET"
                                                   ELSE "POST",
                                        !.path = c.target,
                                        !.data = IF c.op = "get" THEN "none"
                                                 ELSE "payload",
                                        !.body = AuthNone,
                                        !.auth = AuthHeader(p.cred.token),
                                        !.headers = LocalAuthHeaders(
                                                      c.supplied, p.cred.token),
                                        !.mapping = CallerMapping(c.supplied,
                                                      LocalAuthHeaders(
                                                      c.supplied, p.cred.token))],
                           p.cred)
    ELSE Finish(t, c, Returned(val), CurrentCred)

\* _request returned val to the code that awaited it
RequestReturns(t, c, val) ==
    IF c.phase = "login"
    THEN LET p == ProcessLogin(val) IN
         IF p.raises # None
         THEN Finish(t, c, Raised(RaisedBy(p.raises)), p.cred)
         ELSE LET d == [c EXCEPT !.loginDone = TRUE, !.wrote = p.cred.token] IN
              IF c.op = "get_token"
              THEN Finish(t, d, Returned(NoValue), p.cred)
              ELSE Request(t, [d EXCEPT !.phase = "target",
                                        !.method = IF c.op = "get" THEN "GET"
                                                   ELSE "POST",
                                        !.path = c.target,
                                        !.data = IF c.op = "get" THEN "none"
                                                 ELSE "payload",
                                        !.body = AuthNone,
                                        !.auth = AuthHeader(p.cred.token),
                                        !.headers = LocalAuthHeaders(
                                                      c.supplied, p.cred.token),
                                        !.mapping = CallerMapping(c.supplied,
                                                      LocalAuthHeaders(
                                                      c.supplied, p.cred.token))],
                           p.cred)
    ELSE Finish(t, c, Returned(val), CurrentCred)

\* ------------------------------------------------------------------------
\* Operations
\* ------------------------------------------------------------------------
CanStart(t) == pc[t] = "idle" /\ started < MaxOps

\* OpenMoticsCloud._get_auth_headers: the static bearer token
CloudAuthHeader(tok) == AuthHeader(tok)

\* get(path) / post(path): the auth-header hook, then _request
GetOrPost(t, op, paths, hdrs) ==
    /\ CanStart(t)
    /\ started' = started + 1
    /\ UNCHANGED <<config, scope, probe, cloud, clock>>
    /\ \E path \in paths, supplied \in hdrs :
       LET c == [NoCall EXCEPT !.op = op, !.target = path,
                               !.supplied = supplied, !.mapping = supplied]
           target == [c EXCEPT !.phase = "target",
                               !.method = IF op = "get" THEN "GET" ELSE "POST",
                               !.path = path,
                               !.data = IF op = "get" THEN "none" ELSE "payload"]
       IN
       IF backend = "local"
       THEN IF Stale(token, token_expires_at, now)
            THEN Request(t, [c EXCEPT !.phase = "login", !.method = "POST",
                                      !.path = LoginPath, !.data = "auth",
                                      !.body = attrs.auth,
                                      !.nLogin = 1], CurrentCred)
            ELSE Request(t, [target EXCEPT
                                !.auth = AuthHeader(token),
                                !.headers = LocalAuthHeaders(supplied, token),
                                !.mapping = CallerMapping(supplied,
                                              LocalAuthHeaders(supplied, token))],
                         CurrentCred)
       ELSE Request(t, [target EXCEPT
                           !.auth = CloudAuthHeader(token),
                           !.headers = CloudAuthHeaders(supplied, token),
                           !.mapping = CallerMapping(supplied,
                                         CloudAuthHeaders(supplied, token))],
                    CurrentCred)

\* get(path) and post(path, data) without a headers argument
Get(t) == GetOrPost(t, "get", Paths, {NoHeaders})

Post(t) == GetOrPost(t, "post", Paths, {NoHeaders})

\* _request(path) called by the application itself, without headers
DirectRequest(t) ==
    /\ CanStart(t)
    /\ started' = started + 1
    /\ UNCHANGED <<config, scope, probe, cloud, clock>>
    /\ \E path \in Paths :
          Request(t, [NoCall EXCEPT !.op = "request", !.phase = "target",
                                    !.method = "POST", !.path = path,
                                    !.target = path], CurrentCred)

\* LocalGateway.get_token() called by the application itself
GetToken(t) ==
    /\ CanStart(t)
    /\ backend = "local"
    /\ started' = started + 1
    /\ UNCHANGED <<config, scope, probe, cloud, clock>>
    /\ Request(t, [NoCall EXCEPT !.op = "get_token", !.phase = "login",
                                 !.method = "POST", !.path = LoginPath,
                                 !.data = "auth", !.body = attrs.auth,
                                 !.nLogin = 1], CurrentCred)

\* the refresh callback returns a token or raises: line 164
RefreshReturns(t) ==
    /\ pc[t] = "refresh"
    /\ UNCHANGED <<config, scope, probe, cloud, clock, started>>
    /\ \E r \in Tokens \cup {"raise"} :
          IF r = "raise"
          THEN StaminaRetry(t, call[t], RaisedBy("CallbackError"), FALSE)
          ELSE UrlAndSend(t, [call[t] EXCEPT !.refreshed = r],
                          Cred(r, token_expires_at, lastLogin))

\* session.request() completes, or asyncio.timeout cancels it because the
\* deadline has passed: lines 173-191 and the except clauses
HttpReturnsFrom(t, outcomes) ==
    /\ pc[t] = "http"
    /\ UNCHANGED <<config, scope, probe, cloud, clock, started>>
    /\ \E raw \in outcomes, giveup \in BOOLEAN :
          /\ sessions[call[t].sess] = "closed" => raw.type = "exception"
          /\ now >= call[t].deadline
             => raw.type = "exception" /\ raw.class = "TimeoutError"
          /\ LET c == [call[t] EXCEPT !.raw = raw] IN
             IF raw.type = "exception"
             THEN StaminaRetry(t, c, Classify(RaisedBy(raw.class)), giveup)
             ELSE IF raw.status >= 400
             THEN StaminaRetry(t, c, Classify(RaiseForStatus(raw)), giveup)
             ELSE /\ pc' = [pc EXCEPT ![t] = "body"]
                  /\ call' = [call EXCEPT ![t] = c]
                  /\ UNCHANGED <<transport, result, token, token_expires_at,
                                 lastLogin>>

HttpReturns(t) == HttpReturnsFrom(t, RequestOutcomes)

\* response.json() / response.text() completes: lines 193-196
BodyReturns(t) ==
    /\ pc[t] = "body"
    /\ UNCHANGED <<config, scope, probe, cloud, clock, started>>
    /\ LET c == call[t]
           json == IsJson(c.raw.ctype) IN
       \E out \in {"ok"} \cup BodyExceptions, giveup \in BOOLEAN :
          /\ out = "JSONDecodeError" => json
          /\ IF out = "ok"
             THEN /\ giveup = FALSE
                  /\ RequestReturns(t, c, [form |-> IF json THEN "json" ELSE "text",
                                          body |-> c.raw.body])
             ELSE StaminaRetry(t, [c EXCEPT !.raw.type = "exception",
                                            !.raw.class = out],
                               Classify(RaisedBy(out)), giveup)

\* the backoff sleep of the retry decorator ends: the next attempt starts
Backoff(t) ==
    /\ pc[t] = "backoff"
    /\ UNCHANGED <<config, scope, probe, cloud, clock, started>>
    /\ Attempt(t, [call[t] EXCEPT !.attempt = @ + 1, !.raw = NoRaw,
                                  !.err = None], CurrentCred)

\* close() when it does not look at _close_session
CloseAnySession(t) ==
    /\ CanStart(t)
    /\ started' = started + 1
    /\ UNCHANGED <<config, scope, probe, cloud, clock, token, token_expires_at, lastLogin>>
    /\ IF session # None
       THEN /\ pc' = [pc EXCEPT ![t] = "closing"]
            /\ call' = [call EXCEPT ![t] = [NoCall EXCEPT !.op = "close",
                                                          !.sess = session]]
            /\ sessions' = [sessions EXCEPT ![session] = "closed"]
            /\ closes' = [closes EXCEPT ![session] = @ + 1]
            /\ UNCHANGED <<session, close_session, result>>
       ELSE /\ pc' = [pc EXCEPT ![t] = "done"]
            /\ call' = [call EXCEPT ![t] = [NoCall EXCEPT !.op = "close"]]
            /\ result' = [result EXCEPT ![t] = Returned(NoValue)]
            /\ UNCHANGED transport

\* close(), lines 307-308: up to the await of session.close()
Close(t) ==
    /\ CanStart(t)
    /\ started' = started + 1
    /\ UNCHANGED <<config, scope, probe, cloud, clock, token, token_expires_at, lastLogin>>
    /\ IF session # None /\ close_session
       THEN /\ pc' = [pc EXCEPT ![t] = "closing"]
            /\ call' = [call EXCEPT ![t] = [NoCall EXCEPT !.op = "close",
                                                          !.sess = session]]
            /\ sessions' = [sessions EXCEPT ![session] = "closed"]
            /\ closes' = [closes EXCEPT ![session] = @ + 1]
            /\ UNCHANGED <<session, close_session, result>>
       ELSE /\ pc' = [pc EXCEPT ![t] = "done"]
            /\ call' = [call EXCEPT ![t] = [NoCall EXCEPT !.op = "close"]]
            /\ result' = [result EXCEPT ![t] = Returned(NoValue)]
            /\ UNCHANGED transport

\* close() without line 309: the closed session stays in self.session
ClosedKeepsSession(t) ==
    /\ pc[t] = "closing"
    /\ pc' = [pc EXCEPT ![t] = "done"]
    /\ result' = [result EXCEPT ![t] = IF call[t].op = "aexit" THEN @
                                       ELSE Returned(NoValue)]
    /\ UNCHANGED <<config, scope, probe, cloud, clock, started, token, token_expires_at, lastLogin,
                   session, close_session, sessions, closes, call>>

\* close(), line 309: session.close() has completed
Closed(t) ==
    /\ pc[t] = "closing"
    /\ session' = None
    /\ pc' = [pc EXCEPT ![t] = "done"]
    /\ result' = [result EXCEPT ![t] = IF call[t].op = "aexit" THEN @
                                       ELSE Returned(NoValue)]
    /\ UNCHANGED <<config, scope, probe, cloud, clock, started, token, token_expires_at, lastLogin,
                   close_session, sessions, closes, call>>

\* what __aenter__ returns: the client object
Self == [form |-> "self", body |-> NoBody]

\* __aenter__: the application enters "async with client"
Aenter(t) ==
    /\ pc[t] = "idle"
    /\ scope = "out"
    /\ scope' = "in"
    /\ pc' = [pc EXCEPT ![t] = "done"]
    /\ call' = [call EXCEPT ![t] = [NoCall EXCEPT !.op = "aenter"]]
    /\ result' = [result EXCEPT ![t] = Returned(Self)]
    /\ UNCHANGED <<config, probe, cloud, clock, started, token, token_expires_at, lastLogin,
                   transport>>

\* __aexit__ when it closes only after a body that ended normally
AexitOnlyOnNormalReturn(t) ==
    /\ scope = "in"
    /\ \/ pc[t] = "idle"
       \/ pc[t] = "done" /\ result[t].outcome = "raised"
    /\ scope' = "exited"
    /\ UNCHANGED <<config, probe, cloud, clock, started, token, token_expires_at, lastLogin>>
    /\ LET out == IF pc[t] = "done" THEN result[t] ELSE Returned(NoValue) IN
       IF session # None /\ close_session /\ pc[t] = "idle"
       THEN /\ pc' = [pc EXCEPT ![t] = "closing"]
            /\ call' = [call EXCEPT ![t] = [NoCall EXCEPT !.op = "aexit",
                                                          !.sess = session]]
            /\ sessions' = [sessions EXCEPT ![session] = "closed"]
            /\ closes' = [closes EXCEPT ![session] = @ + 1]
            /\ result' = [result EXCEPT ![t] = out]
            /\ UNCHANGED <<session, close_session>>
       ELSE /\ pc' = [pc EXCEPT ![t] = "done"]
            /\ call' = [call EXCEPT ![t] = [NoCall EXCEPT !.op = "aexit"]]
            /\ result' = [result EXCEPT ![t] = out]
            /\ UNCHANGED transport

\* __aexit__: the body of the block has ended, normally (the coroutine is
\* idle) or with the exception of its last operation; close() is called, and
\* the outcome of the block is that of its body
Aexit(t) ==
    /\ scope = "in"
    /\ \/ pc[t] = "idle"
       \/ pc[t] = "done" /\ result[t].outcome = "raised"
    /\ scope' = "exited"
    /\ UNCHANGED <<config, probe, cloud, clock, started, token, token_expires_at, lastLogin>>
    /\ LET out == IF pc[t] = "done" THEN result[t] ELSE Returned(NoValue) IN
       IF session # None /\ close_session
       THEN /\ pc' = [pc EXCEPT ![t] = "closing"]
            /\ call' = [call EXCEPT ![t] = [NoCall EXCEPT !.op = "aexit",
                                                          !.sess = session]]
            /\ sessions' = [sessions EXCEPT ![session] = "closed"]
            /\ closes' = [closes EXCEPT ![session] = @ + 1]
            /\ result' = [result EXCEPT ![t] = out]
            /\ UNCHANGED <<session, close_session>>
       ELSE /\ pc' = [pc EXCEPT ![t] = "done"]
            /\ call' = [call EXCEPT ![t] = [NoCall EXCEPT !.op = "aexit"]]
            /\ result' = [result EXCEPT ![t] = out]
            /\ UNCHANGED transport

\* the caller takes the result; the coroutine is free for the next operation
Return(t) ==
    /\ pc[t] = "done"
    /\ pc' = [pc EXCEPT ![t] = "idle"]
    /\ call' = [call EXCEPT ![t] = NoCall]
    /\ result' = [result EXCEPT ![t] = NoResult]
    /\ UNCHANGED <<config, scope, probe, cloud, clock, started, token, token_expires_at, lastLogin,
                   transport>>

\* the wall clock advances
Tick ==
    /\ ticks < MaxTicks
    /\ ticks' = ticks + 1
    /\ \E d \in TickSteps : now' = now + d
    /\ UNCHANGED <<config, scope, probe, cloud, started, token, token_expires_at, lastLogin,
                   transport, pc, call, result>>

\* the wall clock advances while the caller is between two operations
TickBetween == pc[Caller] = "idle" /\ Tick

\* one caller that awaits each operation before it starts the next
Next ==
    \/ Get(Caller)
    \/ Post(Caller)
    \/ DirectRequest(Caller)
    \/ GetToken(Caller)
    \/ RefreshReturns(Caller)
    \/ HttpReturns(Caller)
    \/ BodyReturns(Caller)
    \/ Backoff(Caller)
    \/ Close(Caller)
    \/ Closed(Caller)
    \/ Return(Caller)
    \/ TickBetween

Spec == Init /\ [][Next]_vars

\* ------------------------------------------------------------------------
\* Properties of the request primitive
\* ------------------------------------------------------------------------
Finished(t) == pc[t] = "done"

RaisedClass(t, class) ==
    Finished(t) /\ result[t].outcome = "raised" /\ result[t].class = class

\* C1: one invocation of _request issues at most 3 HTTP calls; it waits for
\* a further attempt only after an attempt that ended in
\* OpenMoticsConnectionError; what it returns is the body of the attempt
\* that succeeded; and when the third attempt ends in
\* OpenMoticsConnectionError too, that error is raised.
C1_RetryAtMostThree ==
    \A t \in Tasks :
        LET c == call[t] IN
        /\ c.nHttp <= 3
        /\ c.attempt <= 3
        /\ pc[t] = "backoff" => c.err = "OpenMoticsConnectionError"
        /\ (Finished(t) /\ c.op \in {"get", "post", "request"}
               /\ result[t].outcome = "returned")
           => /\ c.raw.type = "response"
              /\ c.raw.status < 400
              /\ result[t].value.body = c.raw.body
        /\ (Finished(t) /\ c.attempt = 3 /\ c.err = "OpenMoticsConnectionError")
           => RaisedClass(t, "OpenMoticsConnectionError")

\* three attempts were made and the third one failed as well
C1_Witness ==
    /\ RaisedClass(Caller, "OpenMoticsConnectionError")
    /\ call[Caller].nHttp = 3
    /\ call[Caller].attempt = 3

\* C2: an attempt that ended in AuthenticationError,
\* OpenMoticsConnectionSslError or OpenMoticsConnectionTimeoutError is the
\* last one of its invocation: the coroutine never waits for a retry after
\* it, and the operation raises that very error.
C2_NoRetryOfOtherKinds ==
    \A t \in Tasks :
        call[t].err \in {"AuthenticationError", "OpenMoticsConnectionSslError",
                         "OpenMoticsConnectionTimeoutError"}
        => RaisedClass(t, call[t].err)

\* a timeout of the first attempt ended the invocation
C2_Witness ==
    /\ RaisedClass(Caller, "OpenMoticsConnectionTimeoutError")
    /\ call[Caller].raw.class = "TimeoutError"
    /\ call[Caller].nHttp = 1

\* C7: the error an operation raises follows from the outcome of its last
\* HTTP call: status 401 or 403 gives AuthenticationError, any other status
\* from 400 on gives OpenMoticsConnectionError with that status and the
\* server's message, a timeout gives OpenMoticsConnectionTimeoutError, a
\* failed name resolution or another transport error gives
\* OpenMoticsConnectionError.
C7_Classification ==
    \A t \in Tasks :
        LET raw == call[t].raw IN
        Finished(t) =>
        /\ (raw.type = "response" /\ raw.status \in {401, 403})
           => RaisedClass(t, "AuthenticationError")
        /\ (raw.type = "response" /\ raw.status >= 400
               /\ raw.status \notin {401, 403})
           => /\ RaisedClass(t, "OpenMoticsConnectionError")
              /\ result[t].status = raw.status
              /\ result[t].message = ReasonOf(raw.status)
        /\ (raw.type = "exception"
               /\ raw.class \in {"TimeoutError", "ServerTimeoutError"})
           => RaisedClass(t, "OpenMoticsConnectionTimeoutError")
        /\ (raw.type = "exception"
               /\ raw.class \in {"gaierror", "ClientConnectorError"})
           => RaisedClass(t, "OpenMoticsConnectionError")

\* a get on the cloud backend was answered with status 500
C7_Witness ==
    /\ backend = "cloud"
    /\ call[Caller].op = "get"
    /\ call[Caller].raw.status = 500
    /\ RaisedClass(Caller, "OpenMoticsConnectionError")
    /\ result[Caller].status = 500

\* C8: whatever makes get, post, _request or get_token fail, the exception
\* the caller sees is one of the four typed errors.
C8_OnlyTypedErrors ==
    \A t \in Tasks :
        (Finished(t) /\ result[t].outcome = "raised")
        => result[t].class \in TypedErrors

\* C9: a certificate failure or a TLS negotiation failure of the transport
\* is classified as OpenMoticsConnectionSslError.
C9_TlsFailuresAreSslErrors ==
    \A t \in Tasks :
        (call[t].raw.type = "exception"
           /\ call[t].raw.class \in {"ClientConnectorSSLError",
                                      "ClientConnectorCertificateError"})
        => call[t].err = "OpenMoticsConnectionSslError"

\* C13: with a refresh callback, each attempt of _request invokes the
\* callback first: an HTTP call is issued, and the URL is resolved, only in
\* the step in which the callback returns, and that step stores the returned
\* value as the token; a callback that raises ends the attempt with no HTTP
\* call.  With no callback _request never writes the token: it changes only
\* when get_token processes a login response.
C13_RefreshBeforeEachAttempt ==
    /\ [](\A t \in Tasks :
            LET c == call[t] IN
            c.op \in {"get", "post", "request", "get_token"} =>
            IF token_refresh_method
            THEN /\ c.nRefresh = c.attempt
                 /\ c.nHttp = IF pc[t] \in {"http", "body"} THEN c.nRefresh
                              ELSE IF pc[t] = "refresh" THEN c.nRefresh - 1
                              ELSE c.nHttp
                 /\ c.nHttp <= c.nRefresh
            ELSE c.nRefresh = 0 /\ pc[t] # "refresh")
    /\ [][\A t \in Tasks :
            (token_refresh_method /\ call'[t].nHttp # call[t].nHttp
               /\ call'[t].nHttp > 0)
            => /\ pc[t] = "refresh"
               /\ call'[t].refreshed \in Tokens
               /\ token' = call'[t].refreshed]_vars
    /\ [][\A t \in Tasks :
            (pc[t] = "refresh" /\ pc'[t] = "done")
            => /\ result'[t].outcome = "raised"
               /\ result'[t].class \in {"ValueError", "CallbackError"}
               /\ result'[t].class = "CallbackError" => token' = token
               /\ result'[t].class = "ValueError" => token' = call'[t].refreshed]_vars
    /\ [][(~token_refresh_method /\ token' # token)
          => \E t \in Tasks :
                /\ pc[t] = "body" /\ call[t].phase = "login"
                /\ call'[t].loginDone /\ ~call[t].loginDone
                /\ token' = call'[t].wrote]_vars

\* the second attempt of a request is in flight: the callback was invoked
\* for it again, and what it returned this time replaced the token
C13_Witness ==
    /\ token_refresh_method
    /\ pc[Caller] = "http"
    /\ call[Caller].attempt = 2
    /\ call[Caller].nRefresh = 2
    /\ call[Caller].nHttp = 2
    /\ call[Caller].refreshed = "tokB"
    /\ token = "tokB"
    /\ call[Caller].auth = "tokA"

\* C15: a get or post whose target request was answered with status 200,
\* and whose read of the body succeeded, returns the body: as the parsed
\* JSON document when the Content-Type value contains application/json
\* (alone or followed by parameters), and as the unchanged text for every
\* other value, a missing header and a media type written in another case
\* included.
C15_JsonOrText ==
    \A t \in Tasks :
        LET c == call[t] IN
        (Finished(t) /\ c.op \in {"get", "post"} /\ c.phase = "target"
           /\ c.nTargetHttp > 0
           /\ c.raw.type = "response" /\ c.raw.status = 200)
        => /\ result[t].outcome = "returned"
           /\ result[t].value.body = c.raw.body
           /\ result[t].value.form =
                 IF c.raw.ctype \in {<<"application/json">>,
                                     <<"application/json", "; charset=utf-8">>}
                 THEN "json" ELSE "text"

\* a get was answered with application/json; charset=utf-8 and returned the
\* parsed document
C15_Witness ==
    /\ Finished(Caller)
    /\ call[Caller].op = "get"
    /\ call[Caller].raw.status = 200
    /\ call[Caller].raw.ctype = <<"application/json", "; charset=utf-8">>
    /\ result[Caller] = Returned([form |-> "json", body |-> TokenBody])

\* one caller whose gets are in flight while the wall clock advances
NextTimeout ==
    \/ Get(Caller)
    \/ RefreshReturns(Caller)
    \/ HttpReturns(Caller)
    \/ BodyReturns(Caller)
    \/ Backoff(Caller)
    \/ Return(Caller)
    \/ Tick

SpecTimeout == Init /\ [][NextTimeout]_vars

\* C14: an attempt whose deadline (the time of sending plus the request
\* timeout) has passed, while it waits for the response or while it reads
\* the body, ends in OpenMoticsConnectionTimeoutError and gives its caller
\* no body.
C14_TimeoutCoversWholeCall ==
    [][\A t \in Tasks :
          (pc[t] \in {"http", "body"} /\ now >= call[t].deadline
             /\ <<pc[t], call[t]>> # <<pc'[t], call'[t]>>)
          => /\ call'[t].err = "OpenMoticsConnectionTimeoutError"
             /\ RaisedClass(t, "OpenMoticsConnectionTimeoutError")']_vars

\* ------------------------------------------------------------------------
\* Properties of the local backend's credential
\* ------------------------------------------------------------------------
\* coroutine t starts a get or a post in this step
StartsGetOrPost(t) ==
    pc[t] = "idle" /\ pc'[t] # "idle" /\ call'[t].op \in {"get", "post"}

\* C3: on the local backend a get or post that starts while the token is
\* absent or expires_at < now + 20 calls get_token exactly once: it starts
\* with the login request (POST login with the auth mapping), and its target
\* request is issued only after that get_token has returned.
C3_OneLoginBeforeTarget ==
    /\ [][\A t \in Tasks :
            (backend = "local" /\ StartsGetOrPost(t)
               /\ (token = None \/ token_expires_at < now + 20))
            => /\ call'[t].nLogin = 1
               /\ call'[t].phase = "login"
               /\ pc'[t] = "http"
               /\ call'[t].nTargetHttp = 0]_vars
    /\ [](\A t \in Tasks :
            LET c == call[t] IN
            c.op \in {"get", "post"} =>
            /\ c.nLogin <= 1
            /\ c.phase = "login"
               => /\ c.method = "POST" /\ c.path = LoginPath /\ c.data = "auth"
                  /\ c.nTargetHttp = 0
            /\ (c.nLogin = 1 /\ c.nTargetHttp > 0)
               => c.loginDone /\ c.nLoginHttp >= 1 /\ c.phase = "target")

\* the target request is out after a login whose first attempt was retried
C3_Witness ==
    /\ backend = "local"
    /\ call[Caller].op = "get"
    /\ pc[Caller] = "http"
    /\ call[Caller].nLogin = 1
    /\ call[Caller].nLoginHttp = 2
    /\ call[Caller].nTargetHttp = 1

\* C4: a login answered with success stores the returned token and
\* expires_at = now + 3600; a get or post logs in if and only if, when it
\* starts, the token is None or expires_at < now + 20; and a get or post
\* that does not log in issues no login request and leaves token and
\* expires_at as they are.
C4_LoginOnlyWhenStale ==
    /\ [][\A t \in Tasks :
            (pc[t] = "body" /\ call[t].phase = "login"
               /\ call[t].raw.body.success = "true"
               /\ call'[t].loginDone)
            => /\ token' = call[t].raw.body.token
               /\ token_expires_at' = now + 3600]_vars
    /\ [][\A t \in Tasks :
            (backend = "local" /\ StartsGetOrPost(t))
            => /\ call'[t].nLogin \in {0, 1}
               /\ call'[t].nLogin = 1
                  <=> (token = None \/ token_expires_at < now + 20)]_vars
    /\ [][\A t \in Tasks :
            (backend = "local" /\ call'[t].op \in {"get", "post"}
               /\ call'[t].nLogin = 0 /\ <<pc[t], call[t]>> # <<pc'[t], call'[t]>>)
            => /\ UNCHANGED <<token, token_expires_at>>
               /\ call'[t].nLoginHttp = 0
               /\ call'[t].phase = "target"]_vars

\* a get goes out without a login on the last second of the token's validity
C4_Witness ==
    /\ backend = "local"
    /\ call[Caller].op = "get"
    /\ pc[Caller] = "http"
    /\ call[Caller].nLogin = 0
    /\ token \in Tokens
    /\ token_expires_at = now + 20

\* C5 as stated: after a login that failed, by success: false or by an
\* error of the login request, token is None and expires_at is 0.
C5_FailedLoginResets ==
    \A t \in Tasks :
        LET c == call[t] IN
        (c.nLogin = 1 /\ (\/ c.loginDone /\ c.wrote = None
                          \/ Finished(t) /\ c.phase = "login"
                                /\ result[t].outcome = "raised"))
        => token = None /\ token_expires_at = 0

\* C5 as the code has it: a login answered with success: false sets token to
\* None and expires_at to 0; a login that ends in an error leaves token and
\* expires_at as they were before it.
C5_FailedLoginResetsOnlyOnRefusal ==
    /\ [][\A t \in Tasks :
            (pc[t] = "body" /\ call[t].phase = "login"
               /\ call[t].raw.body.success = "false" /\ call'[t].loginDone)
            => token' = None /\ token_expires_at' = 0]_vars
    /\ [][\A t \in Tasks :
            (call[t].phase = "login" /\ call'[t].phase = "login"
               /\ pc[t] # "done" /\ pc'[t] = "done"
               /\ result'[t].outcome = "raised")
            => UNCHANGED <<token, token_expires_at>>]_vars

\* a login request failed while the client held a token: the token is kept
C5_Witness ==
    /\ Finished(Caller)
    /\ call[Caller].phase = "login"
    /\ result[Caller].outcome = "raised"
    /\ result[Caller].class \in TypedErrors
    /\ token \in Tokens
    /\ token_expires_at > 0

\* ------------------------------------------------------------------------
\* Properties of the session
\* ------------------------------------------------------------------------
\* coroutine t calls close() in this step
StartsClose(t) == pc[t] = "idle" /\ pc'[t] # "idle" /\ call'[t].op = "close"

\* C10: the caller's session is never closed and never replaced; close()
\* closes a session the client created, once, and then clears it; close()
\* with no session, or right after a close(), closes nothing; close() never
\* raises.
C10_CloseOnlyOwnSession ==
    /\ [](/\ closes[Ext] = 0
          /\ sessions[Ext] # "closed"
          /\ sessions[Ext] = "open"
             => session = Ext /\ \A s \in Created : sessions[s] = "unused"
          /\ \A s \in SessionIds : closes[s] <= 1
          /\ \A t \in Tasks :
                (Finished(t) /\ call[t].op = "close")
                => /\ result[t] = Returned(NoValue)
                   /\ session \in {None, Ext}
                   /\ \A s \in Created : sessions[s] # "open")
    /\ [][\A t \in Tasks :
            (StartsClose(t) /\ session \in {None, Ext})
            => /\ UNCHANGED <<session, sessions, closes>>
               /\ pc'[t] = "done"
               /\ result'[t] = Returned(NoValue)]_vars
    /\ [][\A t \in Tasks :
            (StartsClose(t) /\ session \in Created)
            => /\ sessions'[session] = "closed"
               /\ closes'[session] = closes[session] + 1]_vars
    /\ [][\A t \in Tasks :
            (pc[t] = "closing" /\ pc'[t] = "done") => session' = None]_vars

\* a close() that found no session, after the client's own session was closed
C10_Witness ==
    /\ Finished(Caller)
    /\ call[Caller].op = "close"
    /\ call[Caller].sess = None
    /\ session = None
    /\ closes["1"] = 1

\* ------------------------------------------------------------------------
\* Two coroutines on one local-backend client
\* ------------------------------------------------------------------------
\* what the gateway answers while two coroutines race: to a login request a
\* token or a refusal, to a target request a JSON document or status 401,
\* and nothing within the request timeout
RaceOutcomes(t) ==
    {r \in RequestOutcomes :
        IF call[t].phase = "login"
        THEN /\ r.type = "response" /\ r.status = 200
             /\ r.ctype = <<"application/json">>
             /\ r.body.success = "true" => r.body.token # Absent
             /\ r.body.success # Absent
        ELSE \/ /\ r.type = "response" /\ r.status = 200
                /\ r.ctype = <<"application/json">>
                /\ r.body = NoBody
             \/ r.type = "response" /\ r.status = 401
             \/ /\ r.type = "exception" /\ r.class = "TimeoutError"
                /\ now >= call[t].deadline}

InitRace == Init /\ backend = "local"

\* each coroutine issues one get or post; the two run interleaved
NextRace ==
    \/ \E t \in Tasks : GetOrPost(t, "get", {"path"}, {NoHeaders})
    \/ \E t \in Tasks : GetOrPost(t, "post", {"path"}, {NoHeaders})
    \/ \E t \in Tasks : HttpReturnsFrom(t, RaceOutcomes(t))
    \/ \E t \in Tasks : BodyReturns(t)
    \/ Tick

SpecRace == InitRace /\ [][NextRace]_vars

\* the pair (token, expires_at) the login response l makes get_token store
StoredBy(l) ==
    IF l.body.success = "true"
    THEN <<l.body.token, l.at + 3600>>
    ELSE <<None, 0>>

\* C6: when both coroutines have finished, token and expires_at are the
\* pair stored for the login response that get_token processed last (and
\* None, 0 if it processed none).
C6_LastLoginWins ==
    (\A t \in Tasks : Finished(t))
    => <<token, token_expires_at>> =
          IF lastLogin.seen THEN StoredBy(lastLogin) ELSE <<None, 0>>

\* both coroutines logged in, at the same time of the clock, and their
\* logins stored different tokens
C6_Witness ==
    /\ \A t \in Tasks : Finished(t) /\ call[t].nLogin = 1 /\ call[t].wrote \in Tokens
    /\ call[Caller].wrote # call["other"].wrote
    /\ ticks = 0

\* ------------------------------------------------------------------------
\* The client used as an async context manager
\* ------------------------------------------------------------------------
InitScope == Init /\ ~token_refresh_method

\* an application that enters the block once, issues gets and close() calls
\* before, inside and after it, and leaves it
NextScope ==
    \/ Aenter(Caller)
    \/ Get(Caller)
    \/ Close(Caller)
    \/ HttpReturns(Caller)
    \/ BodyReturns(Caller)
    \/ Backoff(Caller)
    \/ Closed(Caller)
    \/ Return(Caller)
    \/ Aexit(Caller)

SpecScope == InitScope /\ [][NextScope]_vars

\* C11: entering the block returns the client itself and closes nothing;
\* the block is left only through __aexit__, which calls close() whether the
\* body ended normally or raised, and the body's exception is raised on; when
\* the exit has completed, every session the client created is closed, and
\* closed exactly once, also when the body had called close() itself.
C11_ScopeClosesOnce ==
    /\ [][(scope = "out" /\ scope' = "in")
          => /\ UNCHANGED transport
             /\ pc'[Caller] = "done"
             /\ result'[Caller] = Returned(Self)]_vars
    /\ [][(scope = "in" /\ scope' # "in")
          => /\ scope' = "exited"
             /\ call'[Caller].op = "aexit"
             /\ result'[Caller] = IF pc[Caller] = "done" THEN result[Caller]
                                  ELSE Returned(NoValue)
             /\ IF session \in Created
                THEN /\ sessions'[session] = "closed"
                     /\ closes'[session] = closes[session] + 1
                     /\ pc'[Caller] = "closing"
                ELSE /\ UNCHANGED transport
                     /\ pc'[Caller] = "done"]_vars
    /\ [](\A s \in SessionIds : closes[s] <= 1)
    /\ []((Finished(Caller) /\ call[Caller].op = "aexit")
          => /\ session \in {None, Ext}
             /\ \A s \in Created :
                   sessions[s] # "unused" => sessions[s] = "closed" /\ closes[s] = 1)

\* the body closed the client's session itself and then raised: the exit
\* found nothing to close, and the block raised the body's exception
C11_Witness ==
    /\ scope = "exited"
    /\ Finished(Caller)
    /\ call[Caller].op = "aexit"
    /\ call[Caller].sess = None
    /\ result[Caller].outcome = "raised"
    /\ closes["1"] = 1

\* ------------------------------------------------------------------------
\* Two coroutines that share the client's session
\* ------------------------------------------------------------------------
\* what the transport delivers while the session is shared: a text answer,
\* or the error of a session that is closed
ShareOutcomes ==
    {r \in RequestOutcomes :
        \/ /\ r.type = "response" /\ r.status = 200
           /\ r.ctype = <<"text/plain">> /\ r.body = NoBody
        \/ r.type = "exception" /\ r.class = "RuntimeError"}

\* two coroutines that call _request and close() on one client, interleaved
NextShare ==
    \/ \E t \in Tasks : DirectRequest(t)
    \/ \E t \in Tasks : RefreshReturns(t)
    \/ \E t \in Tasks : HttpReturnsFrom(t, ShareOutcomes)
    \/ \E t \in Tasks : BodyReturns(t)
    \/ \E t \in Tasks : Backoff(t)
    \/ \E t \in Tasks : Close(t)
    \/ \E t \in Tasks : Closed(t)
    \/ \E t \in Tasks : Return(t)

SpecShare == Init /\ [][NextShare]_vars

\* C12: a request that finds no session creates one, marks it as owned and
\* uses it; a request that finds a session uses that one and creates none;
\* so until the first close() the client has created at most one session,
\* every request in flight is on the client's session, and a session the
\* caller supplied is neither owned nor replaced.
C12_OneSharedSession ==
    /\ [][\A t \in Tasks :
            (pc[t] # "http" /\ pc'[t] = "http")
            => IF session = None
               THEN /\ session' \in Created
                    /\ sessions[session'] = "unused"
                    /\ sessions'[session'] = "open"
                    /\ close_session'
                    /\ call'[t].sess = session'
               ELSE /\ UNCHANGED <<session, close_session, sessions>>
                    /\ call'[t].sess = session]_vars
    /\ []((\A s \in SessionIds : closes[s] = 0)
          => /\ Cardinality({s \in Created : sessions[s] # "unused"}) <= 1
             /\ \A t \in Tasks : pc[t] \in {"http", "body", "backoff"}
                                    => call[t].sess = session
             /\ session \in Created => close_session /\ sessions[session] = "open"
             /\ sessions[Ext] = "open"
                => session = Ext /\ ~close_session
                   /\ \A s \in Created : sessions[s] = "unused")

\* none was supplied, and the first requests of the two coroutines, which
\* both waited for the refresh callback, are in flight on one session
C12_Witness ==
    /\ token_refresh_method
    /\ sessions[Ext] = "unused"
    /\ \A t \in Tasks : pc[t] = "http" /\ call[t].sess = "1" /\ call[t].attempt = 1
    /\ session = "1"
    /\ close_session
    /\ started = 2
    /\ \A s \in Created \ {"1"} : sessions[s] = "unused"

\* ------------------------------------------------------------------------
\* The headers of get and post
\* ------------------------------------------------------------------------
\* a token of blanks is stripped to the empty string at construction
InitHeaders ==
    /\ InitWith({"tokA", "", None})
    /\ attrs = TestAttrs
    /\ probe = NoProbe
    /\ cloud = NoCloud

\* one caller whose gets and posts pass headers of their own
NextHeaders ==
    \/ GetOrPost(Caller, "get", {"path"}, SuppliedHeaders)
    \/ GetOrPost(Caller, "post", {"path"}, SuppliedHeaders)
    \/ RefreshReturns(Caller)
    \/ HttpReturnsFrom(Caller, RaceOutcomes(Caller))
    \/ BodyReturns(Caller)
    \/ Return(Caller)

SpecHeaders == InitHeaders /\ [][NextHeaders]_vars

InitUrl ==
    /\ InitWith({None})
    /\ backend = "local"
    /\ attrs \in LocalAttrs
    /\ probe = NoProbe
    /\ cloud = NoCloud

\* _get_url(path) or _get_url(path, scheme=scheme) is called
GetUrl ==
    /\ \E path \in PathArgs, scheme \in Schemes \cup {Absent} :
          probe' = [fn |-> "_get_url", path |-> path, scheme |-> scheme,
                    out |-> LocalGetUrl(attrs, path,
                                        IF scheme = Absent THEN "https"
                                        ELSE scheme)]
    /\ UNCHANGED <<config, scope, cloud, token, token_expires_at, lastLogin,
                   transport, clock, started, pc, call, result>>

NextUrl == GetUrl

SpecUrl == InitUrl /\ [][NextUrl]_vars

\* C17: for a path argument that is a path, _get_url gives the scheme (https
\* when none is passed), "://", the configured host, the configured port
\* behind a colon unless it is the default port of that scheme (443 for
\* https and wss, 80 for http), and the path behind one slash.
C17_LocalUrl ==
    (probe.fn = "_get_url" /\ probe.path \in PathRefs)
    => LET scheme == IF probe.scheme = Absent THEN "https" ELSE probe.scheme
           default == \/ scheme \in {"https", "wss"} /\ attrs.port = 443
                      \/ scheme = "http" /\ attrs.port = 80
           path == CASE probe.path = "/test" -> "/test"
                     [] probe.path = "login" -> "/login"
                     [] probe.path = "/api/status" -> "/api/status"
       IN  /\ probe.out = scheme \o "://" \o attrs.localgw
                          \o (IF default THEN "" ELSE ":" \o ToString(attrs.port))
                          \o path
           /\ (attrs = TestAttrs /\ probe.path = "/test" /\ probe.scheme = Absent)
              => probe.out = "https://testlocalgw/test"
           /\ (attrs = TestAttrs /\ probe.path = "/test" /\ probe.scheme = "http")
              => probe.out = "http://testlocalgw:443/test"

\* the gateway of the tests, asked for /test over http: port 443 is written
C17_Witness ==
    /\ attrs = TestAttrs
    /\ probe.fn = "_get_url"
    /\ probe.path = "/test"
    /\ probe.scheme = "http"
    /\ probe.out = "http://testlocalgw:443/test"

\* ------------------------------------------------------------------------
\* The credentials of the local backend
\* ------------------------------------------------------------------------
InitAuth ==
    /\ InitWith({None})
    /\ backend = "local"
    /\ attrs \in AuthAttrs
    /\ probe = NoProbe
    /\ cloud = NoCloud

\* one caller that logs in, by get_token and by gets
NextAuth ==
    \/ GetToken(Caller)
    \/ GetOrPost(Caller, "get", {"path"}, {NoHeaders})
    \/ HttpReturnsFrom(Caller, RaceOutcomes(Caller))
    \/ BodyReturns(Caller)
    \/ Return(Caller)

SpecAuth == InitAuth /\ [][NextAuth]_vars

\* C18: auth is None unless username and password are both non-empty, and
\* then it is the mapping of username and password; no step changes it; and
\* every login request is a POST to login with that object as its data.
C18_AuthIsLoginBody ==
    /\ [](LET nonEmpty == /\ attrs.username = "testuser"
                          /\ attrs.password = "testpass"
          IN  /\ attrs.auth.isNone <=> ~nonEmpty
              /\ nonEmpty => /\ attrs.auth.username = "testuser"
                             /\ attrs.auth.password = "testpass")
    /\ [][attrs' = attrs]_vars
    /\ [](\A t \in Tasks :
            (call[t].phase = "login" /\ pc[t] \in {"http", "body"})
            => /\ call[t].method = "POST"
               /\ call[t].path = LoginPath
               /\ call[t].data = "auth"
               /\ call[t].body = attrs.auth)

\* a gateway constructed with a user name and an empty password: the login
\* request of a get is in flight with None as its data
C18_Witness ==
    /\ attrs.username = "testuser"
    /\ attrs.password = ""
    /\ attrs.auth = AuthNone
    /\ pc[Caller] = "http"
    /\ call[Caller].op = "get"
    /\ call[Caller].phase = "login"
    /\ call[Caller].body = AuthNone

\* ------------------------------------------------------------------------
\* The accessors of the cloud backend
\* ------------------------------------------------------------------------
\* OpenMoticsCloud(token, installation_id=...) without a refresh callback
InitCloud ==
    /\ InitWith({"tokA"})
    /\ backend = "cloud"
    /\ ~token_refresh_method
    /\ attrs = TestAttrs
    /\ probe = NoProbe
    /\ cloud \in {[NoCloud EXCEPT !.installation_id = n] : n \in {NoId, <<999>>}}

\* OpenMoticsVentilationUnits(client)
NewVentilationUnits ==
    /\ ~cloud.ventilations.exists
    /\ cloud' = [cloud EXCEPT !.ventilations =
                    [exists |-> TRUE, omcloud |-> "client",
                     seen |-> cloud.installation_id]]
    /\ UNCHANGED <<config, scope, probe, token, token_expires_at, lastLogin,
                   transport, clock, started, pc, call, result>>

\* client.installation_id = n
SetInstallationId ==
    /\ \E n \in InstallationIds :
          cloud' = [cloud EXCEPT !.installation_id = n, !.assigned = TRUE]
    /\ UNCHANGED <<config, scope, probe, token, token_expires_at, lastLogin,
                   transport, clock, started, pc, call, result>>

\* ventilations.get_all() or ventilations.get_by_id(u), up to the
\* suspension of its get
VentilationsGet(t) ==
    /\ cloud.ventilations.exists
    /\ GetOrPost(t, "get", VentilationPaths(cloud.ventilations, cloud),
                 {NoHeaders})

NextCloud ==
    \/ NewVentilationUnits
    \/ SetInstallationId
    \/ VentilationsGet(Caller)
    \/ HttpReturnsFrom(Caller, RaceOutcomes(Caller))
    \/ BodyReturns(Caller)
    \/ Return(Caller)

SpecCloud == InitCloud /\ [][NextCloud]_vars

\* C19: every accessor call builds its path with the installation_id the
\* client holds when the call starts, so with n after an assignment of n:
\* the path is /base/installations/n/ventilations/units, for get_by_id
\* followed by the id of the unit; the value the client held when the
\* accessor or the client was created plays no part.
C19_PathUsesCurrentInstallation ==
    [][\A t \in Tasks :
          StartsGetOrPost(t)
          => LET base == "/base/installations/"
                         \o (IF cloud.installation_id = NoId THEN "None"
                             ELSE ToString(cloud.installation_id[1]))
                         \o "/ventilations/units"
             IN  /\ call'[t].path \in {base, base \o "/1", base \o "/7"}
                 /\ (cloud.assigned /\ cloud.installation_id = <<123>>)
                    => call'[t].path \in
                          {"/base/installations/123/ventilations/units",
                           "/base/installations/123/ventilations/units/1",
                           "/base/installations/123/ventilations/units/7"}]_vars

\* the accessor was created while the client held 999; 123 was assigned
\* afterwards, and the get of a call made after that is in flight
C19_Witness ==
    /\ cloud.ventilations.exists
    /\ cloud.ventilations.seen = <<999>>
    /\ cloud.assigned
    /\ cloud.installation_id = <<123>>
    /\ pc[Caller] = "http"
    /\ call[Caller].path = "/base/installations/123/ventilations/units/7"

\* ------------------------------------------------------------------------
\* The records of the gateway: deserialization of a flat JSON object
\* ------------------------------------------------------------------------
\* a JSON object is a record of its keys; the value of a key is the empty
\* sequence when the object has no such key, else a sequence of the value
NoKey == <<>>
FlatObjects ==
    [id : {NoKey, <<5>>, <<7>>},
     local_id : {NoKey, <<5>>, <<101>>},
     name : {NoKey, <<"Kitchen">>},
     room : {NoKey, <<2>>, <<255>>},
     room_id : {NoKey, <<2>>, <<3>>},
     status : {NoKey, <<0>>, <<1>>},
     on : {NoKey, <<FALSE>>}]

KitchenObject ==
    [id |-> <<5>>, local_id |-> NoKey, name |-> <<"Kitchen">>,
     room |-> <<2>>, room_id |-> NoKey, status |-> <<1>>, on |-> NoKey]

\* the value a field takes: the value of its key, else its default
FieldOf(d, key, default) == IF d[key] = NoKey THEN default ELSE d[key][1]

\* OpenMoticsBase.__pre_deserialize__
BasePreDeserialize(d) ==
    IF d.id # NoKey /\ d.local_id = NoKey
    THEN [d EXCEPT !.local_id = d.id]
    ELSE d

\* Location.__pre_deserialize__, on objects without floor_coordinates
LocationPreDeserialize(d) ==
    IF d.room_id = NoKey /\ d.room # NoKey
    THEN [d EXCEPT !.room_id = d.room]
    ELSE d

\* Status.__pre_deserialize__
StatusPreDeserialize(d) ==
    IF d.status = <<1>> THEN [d EXCEPT !.on = <<TRUE>>] ELSE d

NoLocation == [room_id |-> 0]
NoStatus == [on |-> FALSE]

\* what from_dict gives: an error, or the fields of the record; a record
\* class without a location field has hasLocation FALSE, an optional
\* nested record that is None has its flag FALSE
NoRecord ==
    [ok |-> FALSE, idx |-> 0, local_id |-> 0, name |-> "None", room |-> 0,
     hasLocation |-> FALSE, location |-> NoLocation,
     hasStatus |-> FALSE, status |-> NoStatus]

\* Location.from_dict(d)
LocationFromDict(d) ==
    [room_id |-> FieldOf(LocationPreDeserialize(d), "room_id", 0)]

\* Status.from_dict(d)
StatusFromDict(d) ==
    [on |-> FieldOf(StatusPreDeserialize(d), "on", FALSE)]

\* OMInput.from_dict(d): the hook is the hook of the base; the fields are
\* idx, local_id, name, status, room (there is no location); the value of
\* the key status is what Status.from_dict is given, and a number is no
\* object: its hook fails on d.get
OMInputFromDict(d) ==
    LET e == BasePreDeserialize(d)
    IN  IF e.status # NoKey
        THEN NoRecord
        ELSE [ok |-> TRUE, idx |-> FieldOf(e, "id", 0),
              local_id |-> FieldOf(e, "local_id", 0),
              name |-> FieldOf(e, "name", "None"),
              room |-> FieldOf(e, "room", 0),
              hasLocation |-> FALSE, location |-> NoLocation,
              hasStatus |-> FALSE, status |-> NoStatus]

\* Light.from_dict(d): the hook of the base, then location is a copy of
\* the whole object; status as for OMInput; a Light has no field room
LightFromDict(d) ==
    LET e == BasePreDeserialize(d)
    IN  IF e.status # NoKey
        THEN NoRecord
        ELSE [ok |-> TRUE, idx |-> FieldOf(e, "id", 0),
              local_id |-> FieldOf(e, "local_id", 0),
              name |-> FieldOf(e, "name", "None"),
              room |-> 0,
              hasLocation |-> TRUE, location |-> LocationFromDict(e),
              hasStatus |-> FALSE, status |-> NoStatus]

\* a nested record deserialized on its own
OnlyLocation(d) ==
    [NoRecord EXCEPT !.ok = TRUE, !.hasLocation = TRUE,
                     !.location = LocationFromDict(d)]

OnlyStatus(d) ==
    [NoRecord EXCEPT !.ok = TRUE, !.hasStatus = TRUE,
                     !.status = StatusFromDict(d)]

Classes == {"OMInput", "Light", "Location", "Status"}

InitInput ==
    /\ InitWith({None})
    /\ backend = "local"
    /\ ~token_refresh_method
    /\ attrs = TestAttrs
    /\ cloud = NoCloud
    /\ probe \in [fn : {"none"}, cls : Classes, d : FlatObjects,
                  out : {NoRecord}]

\* cls.from_dict(d)
FromDict ==
    /\ probe.fn = "none"
    /\ probe' = [probe EXCEPT
                   !.fn = "from_dict",
                   !.out = CASE probe.cls = "OMInput" -> OMInputFromDict(probe.d)
                             [] probe.cls = "Light" -> LightFromDict(probe.d)
                             [] probe.cls = "Location" -> OnlyLocation(probe.d)
                             [] probe.cls = "Status" -> OnlyStatus(probe.d)]
    /\ UNCHANGED <<config, scope, cloud, token, token_expires_at, lastLogin,
                   transport, clock, started, pc, call, result>>

NextInput == FromDict

SpecInput == InitInput /\ [][NextInput]_vars

\* C20: deserializing {"id": 5, "name": "Kitchen", "room": 2, "status": 1}
\* as an input record gives local_id 5, name "Kitchen", a nested location
\* with room_id 2 and a nested status with on True; and for every flat
\* object of an input or a light, local_id is id when local_id is absent,
\* the room_id of the location is room when room_id is absent, and the on
\* of the status is True when status is 1.
C20_FlatInputDeserializes ==
    (probe.fn = "from_dict" /\ probe.cls \in {"OMInput", "Light"})
    => LET d == probe.d
           out == probe.out
       IN  /\ (d.local_id = NoKey /\ d.id # NoKey)
              => out.ok /\ out.local_id = d.id[1]
           /\ (d.room_id = NoKey /\ d.room # NoKey)
              => out.ok /\ out.hasLocation /\ out.location.room_id = d.room[1]
           /\ d.status = <<1>> => out.ok /\ out.hasStatus /\ out.status.on
           /\ (probe.cls = "OMInput" /\ d = KitchenObject)
              => /\ out.ok
                 /\ out.local_id = 5
                 /\ out.name = "Kitchen"
                 /\ out.hasLocation /\ out.location.room_id = 2
                 /\ out.hasStatus /\ out.status.on

\* what the code does give: each hook applies its rule to the object it is
\* handed, the base rule reaches every record, the rule of the location
\* reaches the location of a light, and no record with a key status is
\* deserialized at all
FlatObjectRules ==
    probe.fn = "from_dict"
    => LET d == probe.d
           out == probe.out
       IN  /\ (probe.cls \in {"OMInput", "Light"} /\ out.ok
               /\ d.local_id = NoKey /\ d.id # NoKey)
              => out.local_id = d.id[1]
           /\ (probe.cls \in {"Light", "Location"} /\ out.ok
               /\ d.room_id = NoKey /\ d.room # NoKey)
              => out.hasLocation /\ out.location.room_id = d.room[1]
           /\ (probe.cls = "Status" /\ d.status = <<1>>) => out.status.on
           /\ (probe.cls = "OMInput" /\ out.ok) => ~out.hasLocation
           /\ (probe.cls \in {"OMInput", "Light"})
              => (out.ok <=> d.status = NoKey)

\* ------------------------------------------------------------------------
\* A get or post whose login is refused or fails
\* ------------------------------------------------------------------------
\* C21: on the local backend, when the login of a get or post is answered
\* with success: false, get_token returns without an error: the target
\* request is issued, and its headers hold no Authorization of the client
\* (none at all when the caller passed none); an error the call raises
\* afterwards is that of the target request.
C21_RefusedLoginStillSendsTarget ==
    \A t \in Tasks :
        LET c == call[t] IN
        (backend = "local" /\ c.op \in {"get", "post"}
           /\ c.loginDone /\ c.wrote = None)
        => /\ c.phase = "target"
           /\ c.nTargetHttp >= 1
           /\ c.auth = Absent
           /\ c.sent["Authorization"] = c.supplied["Authorization"]
           /\ c.supplied["Authorization"] = Absent
              => c.sent["Authorization"] = Absent

\* the login was refused and the target request is in flight without
\* Authorization
C21_Witness ==
    /\ backend = "local"
    /\ pc[Caller] = "http"
    /\ call[Caller].op = "get"
    /\ call[Caller].phase = "target"
    /\ call[Caller].loginDone
    /\ lastLogin.seen /\ lastLogin.body.success = "false"
    /\ token = None
    /\ call[Caller].nTargetHttp = 1
    /\ call[Caller].sent["Authorization"] = Absent
    /\ call[Caller].sent["User-Agent"] = UserAgent

\* C22: on the local backend, when the login of a get or post ends in a
\* typed error (one attempt for an error that is not retried, the last of
\* the login's attempts otherwise), the get or post ends there: it raises
\* that error, get_token has not returned, and no target request was or
\* will be issued by the call.
C22_LoginErrorEndsTheCall ==
    /\ [](\A t \in Tasks :
            LET c == call[t] IN
            (backend = "local" /\ c.op \in {"get", "post"} /\ c.nLogin = 1
               /\ c.nTargetHttp = 0 /\ c.err \in TypedErrors
               /\ pc[t] # "backoff")
            => /\ Finished(t)
               /\ RaisedClass(t, c.err)
               /\ c.phase = "login"
               /\ ~c.loginDone
               /\ c.nLoginHttp \in 1..RETRY_ATTEMPTS)
    /\ [][\A t \in Tasks :
            (Finished(t) /\ call[t].op \in {"get", "post"}
               /\ call[t].phase = "login")
            => call'[t].nTargetHttp = 0 /\ pc'[t] \in {"done", "idle"}]_vars

\* the third attempt of the login failed: the get raised its error and no
\* target request went out
C22_Witness ==
    /\ backend = "local"
    /\ RaisedClass(Caller, "OpenMoticsConnectionError")
    /\ call[Caller].op = "get"
    /\ call[Caller].phase = "login"
    /\ call[Caller].nLoginHttp = 3
    /\ call[Caller].nTargetHttp = 0

\* ------------------------------------------------------------------------
\* Two coroutines that log in, get and post on one local-backend client
\* ------------------------------------------------------------------------
\* what the gateway answers: to a login a JSON document, which may lack the
\* key success or the key token; to a target request a document, status 401
\* or nothing within the timeout
CredOutcomes(t) ==
    RaceOutcomes(t) \cup
    {r \in RequestOutcomes :
        /\ call[t].phase = "login"
        /\ r.type = "response" /\ r.status = 200
        /\ r.ctype = <<"application/json">>
        /\ r.body.token = Absent}

NextCred ==
    \/ \E t \in Tasks : GetOrPost(t, "get", {"path"}, {NoHeaders})
    \/ \E t \in Tasks : GetOrPost(t, "post", {"path"}, {NoHeaders})
    \/ \E t \in Tasks : GetToken(t)
    \/ \E t \in Tasks : HttpReturnsFrom(t, CredOutcomes(t))
    \/ \E t \in Tasks : BodyReturns(t)
    \/ Tick

\* the application passed its own session
InitCred == InitRace /\ session = Ext

SpecCred == InitCred /\ [][NextCred]_vars

\* C23: on the local backend token is None exactly when expires_at is 0, in
\* every state, whatever the interleaving of the gets, posts and get_token
\* calls of two coroutines: get_token writes the two in one atomic segment.
C23_TokenIffExpiry ==
    /\ [](backend = "local" => (token = None <=> token_expires_at = 0))
    /\ [][(token' # token \/ token_expires_at' # token_expires_at)
          => \E t \in Tasks :
                /\ pc[t] = "body" /\ call[t].phase = "login"
                /\ call'[t].loginDone
                /\ IF call[t].raw.body.success = "true"
                   THEN token' = call[t].raw.body.token
                        /\ token_expires_at' = now + LOCAL_TOKEN_EXPIRES_IN
                   ELSE token' = None /\ token_expires_at' = 0]_vars

\* a get_token of one coroutine stored a token while the get of the other
\* was between its own login and its target request's answer, and a later
\* refusal has not yet arrived
C23_Witness ==
    /\ token \in Tokens
    /\ token_expires_at = now + LOCAL_TOKEN_EXPIRES_IN
    /\ call[Caller].op = "get_token" /\ Finished(Caller)
    /\ call["other"].op = "get" /\ pc["other"] = "http"
    /\ call["other"].loginDone /\ call["other"].wrote = None

\* ------------------------------------------------------------------------
\* The sessions of a client constructed without one
\* ------------------------------------------------------------------------
\* the sessions the client created and has not closed
OpenCreated == {s \in Created : sessions[s] = "open"}

\* coroutine t calls close() in this step, itself or through __aexit__
StartsAnyClose(t) ==
    /\ call'[t].op \in {"close", "aexit"}
    /\ call[t].op \notin {"close", "aexit"}

\* C24: for a client constructed without a session, used by one caller
\* whose requests and close() calls do not overlap: at most one session the
\* client created is open, and it is the one the client holds; a close()
\* closes it, so that after each close() no created session is open and the
\* client holds none; and a request issued while the client holds none
\* creates a new one, which the client owns and the next close() closes.
C24_NoSessionLeaked ==
    /\ [](sessions[Ext] = "unused"
          => /\ Cardinality(OpenCreated) <= 1
             /\ \A s \in OpenCreated : session = s /\ close_session
             /\ \A s \in Created : closes[s] <= 1
             /\ \A t \in Tasks :
                   (Finished(t) /\ call[t].op \in {"close", "aexit"})
                   => OpenCreated = {} /\ session = None)
    /\ [][\A t \in Tasks :
            (sessions[Ext] = "unused" /\ session = None
               /\ pc[t] # "http" /\ pc'[t] = "http")
            => /\ session' \in Created
               /\ sessions[session'] = "unused"
               /\ sessions'[session'] = "open"
               /\ close_session'
               /\ call'[t].sess = session']_vars
    /\ [][\A t \in Tasks :
            (sessions[Ext] = "unused" /\ StartsAnyClose(t) /\ session # None)
            => /\ sessions'[session] = "closed"
               /\ closes'[session] = 1]_vars

\* a get created session 1, close() closed it, a second get created
\* session 2, and the close() of __aexit__ closed that one too
C24_Witness ==
    /\ sessions[Ext] = "unused"
    /\ sessions["1"] = "closed" /\ closes["1"] = 1
    /\ sessions["2"] = "closed" /\ closes["2"] = 1
    /\ session = None
    /\ Finished(Caller)
    /\ call[Caller].op = "aexit"

\* ------------------------------------------------------------------------
\* Termination of a get or post on the local backend
\* ------------------------------------------------------------------------
InitTerm == Init /\ backend = "local"

\* one caller that issues gets and posts, one after the other
NextTerm ==
    \/ Get(Caller)
    \/ Post(Caller)
    \/ HttpReturns(Caller)
    \/ BodyReturns(Caller)
    \/ Backoff(Caller)
    \/ Return(Caller)

\* session.request() returns, raises or is cancelled at its deadline; the
\* read of the body completes or fails; the sleep before a retry ends
SpecTerm ==
    /\ InitTerm
    /\ [][NextTerm]_vars
    /\ WF_vars(HttpReturns(Caller))
    /\ WF_vars(BodyReturns(Caller))
    /\ WF_vars(Backoff(Caller))

\* C25: a get or post on the local backend ends, and by then it has issued
\* at most 3 login requests and after them at most 3 target requests, 6 HTTP
\* requests in all; it calls get_token at most once, and the login request
\* is sent as _request was given it, with no headers of the hook.
C25_AtMostSixRequests ==
    /\ [](\A t \in Tasks :
            LET c == call[t] IN
            (backend = "local" /\ c.op \in {"get", "post"})
            => /\ c.nLoginHttp <= RETRY_ATTEMPTS
               /\ c.nTargetHttp <= RETRY_ATTEMPTS
               /\ c.nLoginHttp + c.nTargetHttp <= 6
               /\ c.nLogin <= 1
               /\ c.nTargetHttp > 0 => c.loginDone \/ c.nLoginHttp = 0
               /\ c.phase = "login" => c.headers = NoHeaders /\ c.sent = NoHeaders)
    /\ [][\A t \in Tasks :
            (call[t].phase = "target" /\ call'[t].op = call[t].op
               /\ call[t].op \in {"get", "post"})
            => call'[t].nLoginHttp = call[t].nLoginHttp]_vars
    /\ (call[Caller].op \in {"get", "post"} /\ pc[Caller] \notin {"idle", "done"})
       ~> Finished(Caller)

\* a get that needed three login requests and then three target requests
C25_Witness ==
    /\ Finished(Caller)
    /\ call[Caller].op = "get"
    /\ call[Caller].nLoginHttp = 3
    /\ call[Caller].nTargetHttp = 3
    /\ call[Caller].nLogin = 1

\* ------------------------------------------------------------------------
\* The token of the refresh callback and the header sent
\* ------------------------------------------------------------------------
\* C26: when a refresh callback is configured, the HTTP request of each
\* attempt of a get or post carries Authorization: Bearer with the token the
\* client holds when the request is sent, which is the token the callback
\* has just returned.
C26_HeaderCarriesRefreshedToken ==
    \A t \in Tasks :
        LET c == call[t] IN
        (token_refresh_method /\ c.op \in {"get", "post"} /\ pc[t] = "http"
           /\ c.refreshed # Absent)
        => /\ token = c.refreshed
           /\ c.sent["Authorization"] = "Bearer " \o token

\* what is sent instead: the headers composed before _request was called,
\* from the token the client held then, on every attempt
HeaderOfTheTokenBefore ==
    [][\A t \in Tasks :
          (pc[t] = "refresh" /\ pc'[t] = "http" /\ call[t].op \in {"get", "post"})
          => /\ token' = call'[t].refreshed
             /\ call'[t].sent = call[t].headers
             /\ call'[t].sent["Authorization"] =
                   IF call[t].auth # Absent THEN "Bearer " \o call[t].auth
                   ELSE call[t].supplied["Authorization"]]_vars

\* ------------------------------------------------------------------------
\* The host a request of the local backend is sent to
\* ------------------------------------------------------------------------
InitHost ==
    /\ InitWith({None})
    /\ backend = "local"
    /\ attrs \in LocalAttrs
    /\ probe = NoProbe
    /\ cloud = NoCloud

\* one caller whose gets and posts pass paths and strings that are URLs
NextHost ==
    \/ GetOrPost(Caller, "get", PathArgs, {NoHeaders})
    \/ GetOrPost(Caller, "post", PathArgs, {NoHeaders})
    \/ HttpReturnsFrom(Caller, RaceOutcomes(Caller))
    \/ BodyReturns(Caller)
    \/ Return(Caller)

SpecHost == InitHost /\ [][NextHost]_vars

\* C27: every HTTP request of a local-backend client goes to the configured
\* host and port, whatever string get / post were given as their path, so
\* that no request that carries the bearer token goes to another host.
C27_RequestsGoToTheGateway ==
    \A t \in Tasks :
        LET c == call[t] IN
        (backend = "local" /\ pc[t] = "http")
        => /\ c.url.host = attrs.localgw
           /\ c.url.port = attrs.port
           /\ c.sent["Authorization"] # Absent => c.url.host = attrs.localgw

\* what holds: the login request, and every request whose path argument
\* names no scheme and no host, goes to the gateway
PathsGoToTheGateway ==
    \A t \in Tasks :
        LET c == call[t] IN
        (backend = "local" /\ pc[t] = "http"
           /\ (c.phase = "login" \/ c.path \in PathRefs))
        => /\ c.url.scheme = "https"
           /\ c.url.host = attrs.localgw
           /\ c.url.port = attrs.port

\* ------------------------------------------------------------------------
\* The caller's own headers object
\* ------------------------------------------------------------------------
\* C28: the headers mapping a caller passes to get or post holds, during
\* and after the call, exactly the entries it held when it was passed.
C28_CallerHeadersUnchanged ==
    \A t \in Tasks :
        LET c == call[t] IN
        c.op \in {"get", "post"} => c.mapping = c.supplied

\* what holds: a mapping that was passed empty stays empty, and one that
\* was passed with entries is the very object that is sent
CallerHeadersAreTheHeadersSent ==
    \A t \in Tasks :
        LET c == call[t] IN
        (c.op \in {"get", "post"} /\ c.phase = "target")
        => c.mapping = IF c.supplied = NoHeaders THEN NoHeaders ELSE c.headers

\* ------------------------------------------------------------------------
\* The outputs of the cloud backend
\* ------------------------------------------------------------------------
\* outputs.turn_on(output_id, value): the payload, the path, and
\* post(path, json=payload) up to its first suspension
TurnOn(t) ==
    /\ CanStart(t)
    /\ backend = "cloud"
    /\ started' = started + 1
    /\ UNCHANGED <<config, scope, probe, cloud, clock>>
    /\ \E output_id \in UnitIds, value \in TurnOnValues :
          LET path == TurnOnPath(cloud, output_id) IN
          Request(t, [NoCall EXCEPT
                        !.op = "post", !.phase = "target", !.method = "POST",
                        !.path = path, !.target = path,
                        !.via = "turn_on", !.arg = value,
                        !.json = TurnOnPayload(value),
                        !.auth = CloudAuthHeader(token),
                        !.headers = CloudAuthHeaders(NoHeaders, token)],
                  CurrentCred)

NextOutputs ==
    \/ TurnOn(Caller)
    \/ HttpReturnsFrom(Caller, RaceOutcomes(Caller))
    \/ BodyReturns(Caller)
    \/ Return(Caller)

SpecOutputs == InitCloud /\ [][NextOutputs]_vars

\* C29: the request of turn_on(output_id, value) is a POST whose json body
\* is {"value": v} with v = 0 for a value below 0, 100 for a value above
\* 100 and the value itself otherwise (0 included); when value is omitted
\* the body is the empty object.
C29_TurnOnValueClamped ==
    \A t \in Tasks :
        LET c == call[t] IN
        c.via = "turn_on"
        => /\ c.method = "POST"
           /\ c.json.given
           /\ IF c.arg = <<>>
              THEN c.json.payload = <<>>
              ELSE /\ Len(c.json.payload) = 1
                   /\ c.json.payload[1] \in 0..100
                   /\ c.arg[1] < 0 => c.json.payload[1] = 0
                   /\ c.arg[1] > 100 => c.json.payload[1] = 100
                   /\ c.arg[1] \in 0..100 => c.json.payload[1] = c.arg[1]

\* the request of a turn_on with a value above 100 is in flight with 100
C29_Witness ==
    /\ pc[Caller] = "http"
    /\ call[Caller].via = "turn_on"
    /\ call[Caller].arg # <<>>
    /\ call[Caller].arg[1] > 100
    /\ call[Caller].json.payload = <<100>>

\* ------------------------------------------------------------------------
\* The energy sensors of the gateway: the status given as a list
\* ------------------------------------------------------------------------
\* the numbers a status list holds
Readings == {0, 1, 2}

StatusLists == UNION {[1..n -> Readings] : n \in 0..MaxLen}

\* Status(): every field at its default
ZeroStatus == [voltage |-> 0, frequency |-> 0, current |-> 0, power |-> 0]

\* the value of the key status: none, a list, an object or a number
NoStatusKey ==
    [kind |-> "absent", items |-> <<>>, dict |-> ZeroStatus, num |-> 0]
StatusValues ==
    {NoStatusKey}
    \cup {[NoStatusKey EXCEPT !.kind = "list", !.items = l] : l \in StatusLists}
    \cup {[NoStatusKey EXCEPT !.kind = "dict", !.dict = o] :
             o \in {ZeroStatus,
                    [voltage |-> 2, frequency |-> 1, current |-> 1, power |-> 2]}}
    \cup {[NoStatusKey EXCEPT !.kind = "number", !.num = n] : n \in {0, 1}}

\* the flat objects of energy sensors
EnergyObjects ==
    [id : {NoKey, <<5>>}, local_id : {NoKey, <<101>>}, status : StatusValues]

\* status_list[k] if len(status_list) > k else 0
ItemOr0(status_list, k) ==
    IF Len(status_list) > k THEN status_list[k + 1] ELSE 0

\* EnergySensor.__pre_deserialize__ with frequency and current taken from
\* each other's position
EnergyPreDeserializeSwapped(d) ==
    LET e == BasePreDeserialize(d)
        status_list == e.status.items
    IN  IF e.status.kind = "list"
        THEN [e EXCEPT !.status =
                [NoStatusKey EXCEPT
                    !.kind = "dict",
                    !.dict = [voltage |-> ItemOr0(status_list, 0),
                              frequency |-> ItemOr0(status_list, 2),
                              current |-> ItemOr0(status_list, 1),
                              power |-> ItemOr0(status_list, 3)]]]
        ELSE e

\* EnergySensor.__pre_deserialize__
EnergyPreDeserialize(d) ==
    LET e == BasePreDeserialize(d)
        status_list == e.status.items
    IN  IF e.status.kind = "list"
        THEN [e EXCEPT !.status =
                [NoStatusKey EXCEPT
                    !.kind = "dict",
                    !.dict = [voltage |-> ItemOr0(status_list, 0),
                              frequency |-> ItemOr0(status_list, 1),
                              current |-> ItemOr0(status_list, 2),
                              power |-> ItemOr0(status_list, 3)]]]
        ELSE e

\* what EnergySensor.from_dict gives: an error (a status that is a number
\* is no object), or the record, whose status is None or a Status
NoSensor ==
    [ok |-> FALSE, idx |-> 0, local_id |-> 0, hasStatus |-> FALSE,
     status |-> ZeroStatus]

\* EnergySensor.from_dict(d), given what the hook made of d
EnergySensorFromDict(e) ==
    IF e.status.kind = "number"
    THEN NoSensor
    ELSE [ok |-> TRUE, idx |-> FieldOf(e, "id", 0),
          local_id |-> FieldOf(e, "local_id", 0),
          hasStatus |-> e.status.kind = "dict",
          status |-> e.status.dict]

InitEnergy ==
    /\ InitWith({None})
    /\ backend = "local"
    /\ ~token_refresh_method
    /\ attrs = TestAttrs
    /\ cloud = NoCloud
    /\ probe \in [fn : {"none"}, cls : {"EnergySensor"}, d : EnergyObjects,
                  hooked : {[id |-> NoKey, local_id |-> NoKey,
                             status |-> NoStatusKey]},
                  out : {NoSensor}]

\* EnergySensor.from_dict(d): the hook, then the fields
EnergyFromDict ==
    /\ probe.fn = "none"
    /\ probe' = [probe EXCEPT
                   !.fn = "from_dict",
                   !.hooked = EnergyPreDeserialize(probe.d),
                   !.out = EnergySensorFromDict(EnergyPreDeserialize(probe.d))]
    /\ UNCHANGED <<config, scope, cloud, token, token_expires_at, lastLogin,
                   transport, clock, started, pc, call, result>>

NextEnergy == EnergyFromDict

SpecEnergy == InitEnergy /\ [][NextEnergy]_vars

\* C30: when the status of an energy sensor is a list of length n, the hook
\* replaces it by an object whose voltage, frequency, current and power are
\* the elements at positions 0, 1, 2 and 3, each 0 when n does not reach its
\* position, whatever the list holds from position 4 on, and the sensor is
\* deserialized with that status; a status that is not a list is left as it
\* is.
C30_StatusListMapped ==
    (probe.fn = "from_dict" /\ probe.cls = "EnergySensor")
    => LET s == probe.d.status
           h == probe.hooked.status
           n == Len(s.items)
       IN  /\ s.kind = "list"
              => /\ h.kind = "dict"
                 /\ h.dict.voltage = IF 0 < n THEN s.items[1] ELSE 0
                 /\ h.dict.frequency = IF 1 < n THEN s.items[2] ELSE 0
                 /\ h.dict.current = IF 2 < n THEN s.items[3] ELSE 0
                 /\ h.dict.power = IF 3 < n THEN s.items[4] ELSE 0
                 /\ probe.out.ok /\ probe.out.hasStatus
                 /\ probe.out.status = h.dict
           /\ s.kind # "list" => h = s

\* a list of five elements was deserialized: the fifth is in no field
C30_Witness ==
    /\ probe.fn = "from_dict"
    /\ probe.cls = "EnergySensor"
    /\ probe.d.status.kind = "list"
    /\ probe.d.status.items = <<2, 1, 0, 1, 2>>
    /\ probe.out.ok
    /\ probe.out.status =
          [voltage |-> 2, frequency |-> 1, current |-> 0, power |-> 1]

====
